---------------------------- MODULE Spec2Model ----------------------------
(***************************************************************************)
(* A model of mypass: the command processor (src/command.py), the store    *)
(* (src/db.py), its relational layer (src/sql.py) and the string           *)
(* encryption it uses (src/crypt.py).                                      *)
(*                                                                         *)
(* The relational layer is the one of src/sql.py: its tables, its          *)
(* AUTOINCREMENT keys, its foreign keys (pragma foreign_keys = on) and the *)
(* parameter order of its methods.  The callers in src/command.py and      *)
(* src/db.py are modelled with the positional arguments they pass, so a    *)
(* call that hands (item_id, tag_id) to a method declared (tag_id,         *)
(* item_id) binds them the way Python binds them.                          *)
(*                                                                         *)
(* Sql.get_checksum and Sql.field_get are called by src/db.py and          *)
(* src/command.py and are not defined in src/sql.py; they are modelled     *)
(* from the specification.                                                 *)
(***************************************************************************)
EXTENDS Integers, Sequences, FiniteSets, TLC

\* ------------------------------------------------------------------------
\* Bounds of the model
\* ------------------------------------------------------------------------

\* Largest primary key any table hands out (caps the AUTOINCREMENT counters).
MaxId == 2

\* Largest value of the wall clock, in seconds.
MaxTime == 1

\* How many times over a value is encrypted, at most.
MaxWraps == 2

\* Length of the lines that are tried character by character.
MaxLine == 3

\* How many of the tokens returned since the last input are kept.
MaxCalls == 8

\* ------------------------------------------------------------------------
\* Domains of the inputs
\* ------------------------------------------------------------------------

\* Python's None where an integer id is expected (autoincrement requested).
None == 0

\* No passphrase: crypt_key is None.
NoKey == "None"

Keys == {"k1"}

TagNames == {"ta", "tb"}

FieldNames == {"fa", "fb"}

ItemNames == {"ia"}

Notes == {"n"}

Texts == {"v"}

Ids == 1..MaxId

Max(a, b) == IF a >= b THEN a ELSE b

\* ------------------------------------------------------------------------
\* Crypt (src/crypt.py): string values
\* ------------------------------------------------------------------------
\* A string value is [enc |-> <<keys, outermost first>>, text |-> plaintext]:
\* a plaintext has enc = <<>>, a Fernet token of it under k has enc = <<k>>.

Plain(t) == [enc |-> <<>>, text |-> t]

encrypt_str2str(key, data) == [data EXCEPT !.enc = <<key>> \o @]

\* Fernet decryption fails (InvalidToken) unless data is a token under key.
can_decrypt(key, data) == data.enc # <<>> /\ Head(data.enc) = key

decrypt_str2str(key, data) == [data EXCEPT !.enc = Tail(@)]

\* ------------------------------------------------------------------------
\* Sql (src/sql.py): five tables in an in-memory SQLite database
\* ------------------------------------------------------------------------

EmptySql ==
    [tag_table |-> {}, field_table |-> {}, items |-> {}, tags |-> {}, fields |-> {},
     seq |-> [tag_table |-> 0, field_table |-> 0, items |-> 0, tags |-> 0, fields |-> 0]]

RowIds(rows) == {r.id : r \in rows}

\* The outcome of a method: the tables after it, the value returned, and the
\* exception raised ("none" when it returns).
Ok(sql, val) == [sql |-> sql, val |-> val, exc |-> "none"]

Raise(sql, e) == [sql |-> sql, val |-> 0, exc |-> e]

\* A key one more than the largest key in use: the key of a deleted last row
\* is given again.
NextId_reuses(sql, table) ==
    IF sql[table] = {} THEN 1
    ELSE 1 + (CHOOSE i \in {r.id : r \in sql[table]} : \A r \in sql[table] : r.id <= i)

\* integer primary key autoincrement: one more than the largest key the table
\* ever held (sqlite_sequence), never a key of a deleted row.
NextId(sql, table) == sql.seq[table] + 1

\* -- tag_table

get_tag_table_list(sql) == sql.tag_table

\* {t_name: (t_id, t_count)}: rows come in id order, a later row of the same
\* name replaces the earlier one.
get_tag_table_name_mapping(sql) ==
    [n \in {r.name : r \in sql.tag_table} |->
        CHOOSE r \in sql.tag_table :
            r.name = n /\ \A q \in sql.tag_table : q.name = n => q.id <= r.id]

get_tag_table_id_mapping(sql) ==
    [i \in RowIds(sql.tag_table) |-> CHOOSE r \in sql.tag_table : r.id = i]

insert_into_tag_table(sql, tag_id, tag_name, tag_count) ==
    LET new == IF tag_id = None THEN NextId(sql, "tag_table") ELSE tag_id
    IN  IF new \in RowIds(sql.tag_table)
        THEN Raise(sql, "IntegrityError")
        ELSE Ok([sql EXCEPT !.tag_table = @ \cup {[id |-> new, name |-> tag_name, count |-> tag_count]},
                            !.seq.tag_table = Max(@, new)], new)

\* delete from tag_table where name=?  A row that a link references makes the
\* statement fail (foreign key) and nothing is deleted.
delete_from_tag_table(sql, tag_name) ==
    LET gone == {r \in sql.tag_table : r.name = tag_name}
    IN  IF \E r \in gone : \E l \in sql.tags : l.tag_id = r.id
        THEN Raise(sql, "IntegrityError")
        ELSE Ok([sql EXCEPT !.tag_table = @ \ gone], Cardinality(gone))

\* update tag_table set name=? where name=?
rename_tag_table_entry(sql, old_name, new_name) ==
    LET hit == {r \in sql.tag_table : r.name = old_name}
    IN  Ok([sql EXCEPT !.tag_table =
                {IF r \in hit THEN [r EXCEPT !.name = new_name] ELSE r : r \in @}],
           Cardinality(hit))

\* The counters added to the stored counts, not put in their place.
update_tag_table_counters_adds(sql) ==
    [sql EXCEPT !.tag_table =
        {[r EXCEPT !.count = @ + Cardinality({l \in sql.tags : l.tag_id = r.id})]
         : r \in @}]

update_tag_table_counters(sql) ==
    [sql EXCEPT !.tag_table =
        {[r EXCEPT !.count = Cardinality({l \in sql.tags :
                                 l.tag_id = r.id /\ l.item_id \in RowIds(sql.items)})]
         : r \in @}]

\* -- field_table

get_field_table_list(sql) == sql.field_table

get_field_table_name_mapping(sql) ==
    [n \in {r.name : r \in sql.field_table} |->
        CHOOSE r \in sql.field_table :
            r.name = n /\ \A q \in sql.field_table : q.name = n => q.id <= r.id]

get_field_table_id_mapping(sql) ==
    [i \in RowIds(sql.field_table) |-> CHOOSE r \in sql.field_table : r.id = i]

insert_into_field_table(sql, field_id, field_name, field_sensitive, field_count) ==
    LET new == IF field_id = None THEN NextId(sql, "field_table") ELSE field_id
    IN  IF new \in RowIds(sql.field_table)
        THEN Raise(sql, "IntegrityError")
        ELSE Ok([sql EXCEPT !.field_table = @ \cup
                                {[id |-> new, name |-> field_name,
                                  sensitive |-> field_sensitive, count |-> field_count]},
                            !.seq.field_table = Max(@, new)], new)

delete_from_field_table(sql, field_name) ==
    LET gone == {r \in sql.field_table : r.name = field_name}
    IN  IF \E r \in gone : \E l \in sql.fields : l.field_id = r.id
        THEN Raise(sql, "IntegrityError")
        ELSE Ok([sql EXCEPT !.field_table = @ \ gone], Cardinality(gone))

rename_field_table_entry(sql, old_name, new_name) ==
    LET hit == {r \in sql.field_table : r.name = old_name}
    IN  Ok([sql EXCEPT !.field_table =
                {IF r \in hit THEN [r EXCEPT !.name = new_name] ELSE r : r \in @}],
           Cardinality(hit))

\* The field counters left as they are stored.
update_field_table_counters_kept(sql) == sql

update_field_table_counters(sql) ==
    [sql EXCEPT !.field_table =
        {[r EXCEPT !.count = Cardinality({l \in sql.fields :
                                 l.field_id = r.id /\ l.item_id \in RowIds(sql.items)})]
         : r \in @}]

\* -- tags (item-tag links)

tag_exists(sql, tag_id, item_id) ==
    \E l \in sql.tags : l.item_id = item_id /\ l.tag_id = tag_id

\* select * from tags where item_id=?
get_tag_list(sql, item_id) == {l \in sql.tags : l.item_id = item_id}

\* insert into tags with the foreign keys left unenforced.
insert_into_tags_unchecked(sql, tag_id, tag_table_id, item_id) ==
    LET new == IF tag_id = None THEN NextId(sql, "tags") ELSE tag_id
    IN  IF new \in RowIds(sql.tags)
        THEN Raise(sql, "IntegrityError")
        ELSE Ok([sql EXCEPT !.tags = @ \cup {[id |-> new, tag_id |-> tag_table_id, item_id |-> item_id]},
                            !.seq.tags = Max(@, new)], new)

insert_into_tags(sql, tag_id, tag_table_id, item_id) ==
    LET new == IF tag_id = None THEN NextId(sql, "tags") ELSE tag_id
    IN  IF \/ new \in RowIds(sql.tags)
           \/ tag_table_id \notin RowIds(sql.tag_table)
           \/ item_id \notin RowIds(sql.items)
        THEN Raise(sql, "IntegrityError")
        ELSE Ok([sql EXCEPT !.tags = @ \cup {[id |-> new, tag_id |-> tag_table_id, item_id |-> item_id]},
                            !.seq.tags = Max(@, new)], new)

delete_from_tags(sql, tag_table_id, item_id) ==
    LET gone == IF tag_table_id = None
                THEN {l \in sql.tags : l.item_id = item_id}
                ELSE {l \in sql.tags : l.tag_id = tag_table_id /\ l.item_id = item_id}
    IN  Ok([sql EXCEPT !.tags = @ \ gone], Cardinality(gone))

\* -- fields (item-field values)

field_exists(sql, field_id, item_id) ==
    \E l \in sql.fields : l.item_id = item_id /\ l.field_id = field_id

get_field_list(sql, item_id) == {l \in sql.fields : l.item_id = item_id}

insert_into_fields(sql, field_id, field_table_id, item_id, field_value, encrypted_value) ==
    LET new == IF field_id = None THEN NextId(sql, "fields") ELSE field_id
    IN  IF \/ new \in RowIds(sql.fields)
           \/ field_table_id \notin RowIds(sql.field_table)
           \/ item_id \notin RowIds(sql.items)
        THEN Raise(sql, "IntegrityError")
        ELSE Ok([sql EXCEPT !.fields = @ \cup
                                {[id |-> new, field_id |-> field_table_id, item_id |-> item_id,
                                  value |-> field_value, encrypted |-> encrypted_value]},
                            !.seq.fields = Max(@, new)], new)

delete_from_fields(sql, field_table_id, item_id) ==
    LET gone == IF field_table_id = None
                THEN {l \in sql.fields : l.item_id = item_id}
                ELSE {l \in sql.fields : l.field_id = field_table_id /\ l.item_id = item_id}
    IN  Ok([sql EXCEPT !.fields = @ \ gone], Cardinality(gone))

\* update fields set field_id=.., value=.., encrypted=.. where id=.. and item_id=..
\* (the callers of the model always pass the three columns)
update_field(sql, field_id, item_id, field_table_id, field_value, encrypted_value) ==
    LET hit == {l \in sql.fields : l.id = field_id /\ l.item_id = item_id}
    IN  IF hit # {} /\ field_table_id \notin RowIds(sql.field_table)
        THEN Raise(sql, "IntegrityError")
        ELSE Ok([sql EXCEPT !.fields =
                    {IF l \in hit
                     THEN [l EXCEPT !.field_id = field_table_id, !.value = field_value,
                                    !.encrypted = encrypted_value]
                     ELSE l : l \in @}],
                Cardinality(hit))

\* -- items

get_item_list(sql, item_id) == {r \in sql.items : r.id = item_id}

insert_into_items(sql, item_id, item_name, item_timestamp, item_note) ==
    LET new == IF item_id = None THEN NextId(sql, "items") ELSE item_id
    IN  IF new \in RowIds(sql.items)
        THEN Raise(sql, "IntegrityError")
        ELSE Ok([sql EXCEPT !.items = @ \cup
                                {[id |-> new, name |-> item_name, date |-> item_timestamp,
                                  note |-> item_note]},
                            !.seq.items = Max(@, new)], new)

delete_from_items(sql, item_id) ==
    LET gone == {r \in sql.items : r.id = item_id}
    IN  IF gone # {} /\ (\/ \E l \in sql.tags : l.item_id = item_id
                         \/ \E l \in sql.fields : l.item_id = item_id)
        THEN Raise(sql, "IntegrityError")
        ELSE Ok([sql EXCEPT !.items = @ \ gone], Cardinality(gone))

\* -- general

update_counters(sql) == update_field_table_counters(update_tag_table_counters(sql))

get_table_count(sql, table) == Cardinality(sql[table])


\* Sql.get_checksum is not in src/sql.py.  The specification: "a hash over a
\* canonical full dump of relational state".  The digest here is the number
\* of rows of the dump.
get_checksum(sql) ==
    Cardinality(sql.tag_table) + Cardinality(sql.field_table) + Cardinality(sql.items)
        + Cardinality(sql.tags) + Cardinality(sql.fields)

\* Sql.field_get is not in src/sql.py.  From its caller (command.py:630-633):
\* the rows of the fields table whose primary key is field_id.
field_get(sql, field_id) == {l \in sql.fields : l.id = field_id}

\* ------------------------------------------------------------------------
\* Database (src/db.py)
\* ------------------------------------------------------------------------

TEMP_FILE == "db.tmp"

DEFAULT_DATABASE_NAME == "pw.db"

\* Database.__init__
Database(file_name, crypt_key) ==
    [file_name |-> file_name, crypt_key |-> crypt_key, sql |-> EmptySql,
     checksum |-> get_checksum(EmptySql)]

\* The rows of a table in the order a select returns them (by primary key).
RECURSIVE ById(_)
ById(rows) ==
    IF rows = {} THEN <<>>
    ELSE LET r == CHOOSE r \in rows : \A q \in rows : r.id <= q.id
         IN  <<r>> \o ById(rows \ {r})

_tag_table_to_list(sql) ==
    LET l == ById(get_tag_table_list(sql))
    IN  [i \in 1..Len(l) |-> [uid |-> l[i].id, name |-> l[i].name, count |-> l[i].count]]

_field_table_to_list(sql) ==
    LET l == ById(get_field_table_list(sql))
    IN  [i \in 1..Len(l) |-> [uid |-> l[i].id, name |-> l[i].name,
                              sensitive |-> l[i].sensitive, count |-> l[i].count]]

\* One entry per item, keyed by the item id; decrypt_flag is False in every
\* call of the command processor.
_items_to_dict(sql) ==
    LET tag_mapping == get_tag_table_id_mapping(sql)
        field_mapping == get_field_table_id_mapping(sql)
        item_fetch_list == ById(sql.items)
        tags_of(item_id) ==
            LET l == ById(get_tag_list(sql, item_id))
            IN  [i \in 1..Len(l) |-> tag_mapping[l[i].tag_id].name]
        fields_of(item_id) ==
            LET l == ById(get_field_list(sql, item_id))
            IN  [i \in 1..Len(l) |-> [key |-> l[i].id, name |-> field_mapping[l[i].field_id].name,
                                      value |-> l[i].value, encrypted |-> l[i].encrypted]]
    IN  [i \in 1..Len(item_fetch_list) |->
            [key |-> item_fetch_list[i].id, name |-> item_fetch_list[i].name,
             timestamp |-> item_fetch_list[i].date, note |-> item_fetch_list[i].note,
             tags |-> tags_of(item_fetch_list[i].id),
             fields |-> fields_of(item_fetch_list[i].id)]]

\* The exchange document.  missing names a section the document lacks
\* ("none" for a document that sql_to_json produced, "json" for data that is
\* not JSON at all).
sql_to_json(sql) ==
    [tags |-> _tag_table_to_list(sql), fields |-> _field_table_to_list(sql),
     items |-> _items_to_dict(sql), missing |-> "none"]

\* Data that json.loads rejects.
NotJson == [tags |-> <<>>, fields |-> <<>>, items |-> <<>>, missing |-> "json"]

\* json_to_sql, the three loops.  Each takes the outcome so far and stops at
\* the first exception; what was inserted before it stays in the tables.
RECURSIVE read_tag_section(_, _, _)
read_tag_section(r, list, i) ==
    IF r.exc # "none" \/ i > Len(list) THEN r
    ELSE read_tag_section(insert_into_tag_table(r.sql, list[i].uid, list[i].name, list[i].count),
                          list, i + 1)

RECURSIVE read_field_section(_, _, _)
read_field_section(r, list, i) ==
    IF r.exc # "none" \/ i > Len(list) THEN r
    ELSE read_field_section(insert_into_field_table(r.sql, list[i].uid, list[i].name,
                                                    list[i].sensitive, list[i].count),
                            list, i + 1)

\* for tag in item[KEY_TAGS]: insert_into_tags(None, int(item_id), tag_mapping[tag][MAP_TAG_ID])
RECURSIVE read_item_tags(_, _, _, _, _)
read_item_tags(r, tag_mapping, item_id, list, i) ==
    IF r.exc # "none" \/ i > Len(list) THEN r
    ELSE IF list[i] \notin DOMAIN tag_mapping THEN Raise(r.sql, "KeyError")
    ELSE read_item_tags(insert_into_tags(r.sql, None, item_id, tag_mapping[list[i]].id),
                        tag_mapping, item_id, list, i + 1)

\* for field_id in item[KEY_FIELDS]: insert_into_fields(None, int(item_id),
\*     int(field_mapping[f_name][MAP_FIELD_ID]), f_value, f_encrypted)
\* (encrypt_flag is False when read calls json_to_sql)
RECURSIVE read_item_fields(_, _, _, _, _)
read_item_fields(r, field_mapping, item_id, list, i) ==
    IF r.exc # "none" \/ i > Len(list) THEN r
    ELSE IF list[i].name \notin DOMAIN field_mapping THEN Raise(r.sql, "KeyError")
    ELSE read_item_fields(insert_into_fields(r.sql, None, item_id, field_mapping[list[i].name].id,
                                             list[i].value, list[i].encrypted),
                          field_mapping, item_id, list, i + 1)

RECURSIVE read_item_section(_, _, _, _, _)
read_item_section(r, tag_mapping, field_mapping, list, i) ==
    IF r.exc # "none" \/ i > Len(list) THEN r
    ELSE LET item == list[i]
             r1 == insert_into_items(r.sql, None, item.name, item.timestamp, item.note)
             r2 == read_item_tags(r1, tag_mapping, item.key, item.tags, 1)
             r3 == read_item_fields(r2, field_mapping, item.key, item.fields, 1)
         IN  read_item_section(r3, tag_mapping, field_mapping, list, i + 1)

\* Every failure leaves json_to_sql as a ValueError.
json_to_sql(sql, data) ==
    IF data.missing = "json" THEN Raise(sql, "ValueError")
    ELSE LET r1 == IF data.missing = "tags" THEN Raise(sql, "KeyError")
                   ELSE read_tag_section(Ok(sql, 0), data.tags, 1)
             r2 == IF r1.exc # "none" THEN r1
                   ELSE IF data.missing = "fields" THEN Raise(r1.sql, "KeyError")
                   ELSE read_field_section(r1, data.fields, 1)
             r3 == IF r2.exc # "none" THEN r2
                   ELSE IF data.missing = "items" THEN Raise(r2.sql, "KeyError")
                   ELSE read_item_section(r2, get_tag_table_name_mapping(r2.sql),
                                          get_field_table_name_mapping(r2.sql), data.items, 1)
         IN  IF r3.exc # "none" THEN Raise(r3.sql, "ValueError") ELSE Ok(r3.sql, 0)

\* -- the file system: a path is a name and the time stamp appended to it
\*    (NoStamp when none is), a file is the key its bytes are encrypted
\*    under (NoKey for text) and the document.

NoStamp == -1

Path(name) == [name |-> name, stamp |-> NoStamp]

\* self.file_name + '-' + get_string_timestamp()
BackupPath(name, time) == [name |-> name, stamp |-> time]

exists(fs, path) == path \in DOMAIN fs

\* open(path, 'w') ... f.write(data)
write_file(fs, path, data) ==
    [p \in DOMAIN fs \cup {path} |-> IF p = path THEN data ELSE fs[p]]

\* os.rename: the destination, when it exists, is replaced.
rename(fs, src, dst) ==
    [p \in (DOMAIN fs \ {src}) \cup {dst} |-> IF p = dst THEN fs[src] ELSE fs[p]]

\* json_data if self.crypt_key is None else self.crypt_key.encrypt_str2byte(json_data)
encode_document(crypt_key, json_data) == [key |-> crypt_key, doc |-> json_data]

\* A reader that gets at the document whatever key it was given.
read_data_any_key(crypt_key, file) == [exc |-> "none", data |-> file.doc]

\* Database.read, lines 320-327: the data handed to json_to_sql, or the
\* failure.  Without a key the file is read as text, and a Fernet token read
\* as text is not JSON; with a key, decryption fails on anything but a token
\* under that key.
read_data(crypt_key, file) ==
    IF crypt_key = NoKey
    THEN [exc |-> "none", data |-> IF file.key = NoKey THEN file.doc ELSE NotJson]
    ELSE IF file.key = crypt_key
         THEN [exc |-> "none", data |-> file.doc]
         ELSE [exc |-> "ValueError", data |-> NotJson]

\* Database.read: the Database after it and the exception it raised.
read(db, fs) ==
    IF ~exists(fs, Path(db.file_name)) THEN [db |-> db, exc |-> "FileNotFoundError"]
    ELSE LET d == read_data(db.crypt_key, fs[Path(db.file_name)])
         IN  IF d.exc # "none" THEN [db |-> db, exc |-> d.exc]
             ELSE LET r == json_to_sql(db.sql, d.data)
                  IN  IF r.exc # "none"
                      THEN [db |-> [db EXCEPT !.sql = r.sql], exc |-> r.exc]
                      ELSE [db |-> [db EXCEPT !.sql = r.sql, !.checksum = get_checksum(r.sql)],
                            exc |-> "none"]

\* Database.write, step by step (lines 341-345, 348-350, 353-354, 355, 358).
write_data(db) ==
    LET sql == update_counters(db.sql)
    IN  [sql |-> sql, data |-> encode_document(db.crypt_key, sql_to_json(sql))]

write_temp(fs, data) == write_file(fs, Path(TEMP_FILE), data)

write_backup(fs, file_name, time) ==
    IF exists(fs, Path(file_name))
    THEN rename(fs, Path(file_name), BackupPath(file_name, time))
    ELSE fs

write_promote(fs, file_name) == rename(fs, Path(TEMP_FILE), Path(file_name))


\* ------------------------------------------------------------------------
\* CommandProcessor (src/command.py): the state
\* ------------------------------------------------------------------------

VARIABLES
    file_name,  \* CommandProcessor.file_name
    db,         \* CommandProcessor.db: NoDatabase (None) or a Database
    fs,         \* the files on disk: path -> file
    now,        \* the wall clock, in seconds
    last,       \* what the last operation handed back to its caller
    lexer,      \* Parser.lexer: the Lexer object
    tokens,     \* what next_token returned since the last input, oldest first
    parser      \* where Parser.execute stands

vars == <<file_name, db, fs, now, last, lexer, tokens, parser>>

\* self.db = None
NoDatabase == [none |-> TRUE]

\* Response(severity, value); the value is kept as the text of the message
\* without its arguments.
Response(severity, message) == [severity |-> severity, value |-> message]

ok(value) == Response("OK", value)

warning(message) == Response("WARNING", message)

error(message) == Response("ERROR", message)

exception(message) == Response("EXCEPTION", message)

\* An operation that ends without a return statement hands back None.
ReturnsNone == [severity |-> "None", value |-> "None"]

\* An exception that no handler of the operation catches reaches the caller.
Raised(e) == [severity |-> "Raised", value |-> e]

NO_DATABASE == "no database"

\* The answers of the two callbacks: confirm gives a boolean, crypt gives a
\* key, None, or fails.
CryptFails == "raise"

\* db_loaded without the question: a loaded store is overwritten unasked.
db_loaded_unasked(overwrite, confirm) ==
    IF db = NoDatabase THEN FALSE
    ELSE IF overwrite THEN FALSE
    ELSE TRUE

\* db_loaded(overwrite): confirm is the answer the confirmation callback
\* gives when it is asked.
db_loaded(overwrite, confirm) ==
    IF db = NoDatabase THEN FALSE
    ELSE IF overwrite THEN ~confirm
    ELSE TRUE

\* encrypt_value that hands the value back whatever the key.
encrypt_value_skipped(value) == value

encrypt_value(value) ==
    IF db.crypt_key # NoKey THEN encrypt_str2str(db.crypt_key, value) ELSE value

\* decrypt_value raises when a key is configured and the value is no token
\* under it.
decrypt_value_raises(value) == db.crypt_key # NoKey /\ ~can_decrypt(db.crypt_key, value)

decrypt_value(value) ==
    IF db.crypt_key # NoKey THEN decrypt_str2str(db.crypt_key, value) ELSE value

\* A handler's effect on what the model records: the Response it returns.  No
\* operation of the command processor touches the lexer or the parser; when
\* the parser makes the call, the step is the parser's and says what becomes of
\* the two.
Return(response) ==
    /\ last' = response
    /\ IF parser.pc = "idle" THEN UNCHANGED <<lexer, tokens, parser>> ELSE TRUE

SetSql(sql) == db' = [db EXCEPT !.sql = sql]

\* ------------------------------------------------------------------------
\* Database commands
\* ------------------------------------------------------------------------

\* A create that puts the new, empty store on the disk at once.
database_create_writes(name, confirm, key) ==
    /\ key # CryptFails
    /\ file_name' = name /\ db' = Database(name, key)
    /\ fs' = write_file(fs, Path(name), encode_document(key, sql_to_json(EmptySql)))
    /\ Return(ok("created database"))
    /\ UNCHANGED now

database_create(name, confirm, key) ==
    /\ IF db_loaded(TRUE, confirm)
       THEN Return(warning("database not created")) /\ UNCHANGED <<file_name, db>>
       ELSE IF exists(fs, Path(name))
       THEN Return(error("database already exists")) /\ UNCHANGED <<file_name, db>>
       ELSE IF key = CryptFails
       THEN \* self.file_name is assigned before self.crypt() is called
            file_name' = name /\ UNCHANGED db /\ Return(Raised("crypt callback"))
       ELSE file_name' = name /\ db' = Database(name, key)
            /\ Return(ok("created database"))
    /\ UNCHANGED <<fs, now>>

\* The handler without self.db = None: the store the read was filling stays.
database_read_except_keeps(assigned) ==
    /\ db' = assigned
    /\ file_name' = DEFAULT_DATABASE_NAME
    /\ Return(exception("failed to read database"))

\* except Exception as e: self.db = None; self.file_name = DEFAULT_DATABASE_NAME
\* `assigned` is what self.db holds when the exception arrives.
database_read_except(assigned) ==
    /\ db' = NoDatabase
    /\ file_name' = DEFAULT_DATABASE_NAME
    /\ Return(exception("failed to read database"))

database_read(name, confirm, key) ==
    /\ IF db_loaded(TRUE, confirm)
       THEN Return(warning("database not read")) /\ UNCHANGED <<file_name, db>>
       ELSE IF key = CryptFails
       THEN database_read_except(db)
       ELSE LET r == read(Database(name, key), fs)
            IN  IF r.exc = "none"
                THEN db' = r.db /\ file_name' = name /\ Return(ok("read database"))
                ELSE database_read_except(r.db)
    /\ UNCHANGED <<fs, now>>

database_write ==
    /\ IF db_loaded(FALSE, FALSE)
       THEN LET w == write_data(db)
                fs1 == write_temp(fs, w.data)
                fs2 == write_backup(fs1, db.file_name, now)
            IN  IF exists(fs2, Path(TEMP_FILE))
                THEN /\ fs' = write_promote(fs2, db.file_name)
                     /\ db' = [db EXCEPT !.sql = w.sql, !.checksum = get_checksum(w.sql)]
                     /\ Return(ok("database written"))
                ELSE \* os.rename(TEMP_FILE, ...) raises FileNotFoundError
                     /\ fs' = fs2
                     /\ db' = [db EXCEPT !.sql = w.sql]
                     /\ Return(exception("cannot write database"))
       ELSE Return(warning(NO_DATABASE)) /\ UNCHANGED <<db, fs>>
    /\ UNCHANGED <<file_name, now>>

\* Nothing was returned yet.
NoResponse == [severity |-> "None", value |-> "no command yet"]

\* The process is killed inside Database.write, after its first `step` file
\* operations (1: the temporary file is written, 2: the target is renamed to
\* its backup name as well).  The disk keeps what was done; the next session
\* starts from CommandProcessor.__init__.
write_interrupted(step) ==
    /\ db_loaded(FALSE, FALSE)
    /\ LET fs1 == write_temp(fs, write_data(db).data)
       IN  fs' = IF step = 1 THEN fs1 ELSE write_backup(fs1, db.file_name, now)
    /\ file_name' = ""
    /\ db' = NoDatabase
    /\ last' = NoResponse
    /\ lexer' = [command |-> <<>>, count |-> 0, char_list |-> <<>>, state |-> "START"]
    /\ tokens' = <<>>
    /\ parser' = [parser EXCEPT !.pc = "idle", !.cmd = "", !.sw = "", !.arg = None,
                                !.default_item_id = None, !.calls = <<>>, !.shown = <<>>]
    /\ UNCHANGED now

\* FORMAT_JSON: export_to_json writes sql_to_json() as text, values as stored.
\* FORMAT_SQL: a copy of the tables in SQLite's own file format.
FileFormat == {"FORMAT_JSON", "FORMAT_SQL"}

database_export(name, output_format) ==
    /\ IF db_loaded(FALSE, FALSE)
       THEN /\ fs' = write_file(fs, Path(name),
                        [key |-> IF output_format = "FORMAT_JSON" THEN NoKey ELSE "sqlite",
                         doc |-> sql_to_json(db.sql)])
            /\ Return(ok("database exported"))
       ELSE Return(warning(NO_DATABASE)) /\ UNCHANGED fs
    /\ UNCHANGED <<file_name, db, now>>

database_import ==
    /\ Return(warning("not yet implemented"))
    /\ UNCHANGED <<file_name, db, fs, now>>

\* Both print and end without a return statement, a database loaded or not.
database_dump ==
    /\ Return(ReturnsNone)
    /\ UNCHANGED <<file_name, db, fs, now>>

database_report ==
    /\ Return(ReturnsNone)
    /\ UNCHANGED <<file_name, db, fs, now>>

\* ------------------------------------------------------------------------
\* Tag table commands
\* ------------------------------------------------------------------------

\* tag_table_list, tag_table_count, tag_table_search: queries.
tag_table_list ==
    /\ IF db_loaded(FALSE, FALSE) THEN Return(ok("tag table rows")) ELSE Return(warning(NO_DATABASE))
    /\ UNCHANGED <<file_name, db, fs, now>>

tag_table_add(name) ==
    /\ IF db_loaded(FALSE, FALSE)
       THEN LET tag_mapping == get_tag_table_name_mapping(db.sql)
            IN  IF name \in DOMAIN tag_mapping
                THEN Return(error("tag already exists")) /\ UNCHANGED db
                ELSE /\ NextId(db.sql, "tag_table") <= MaxId
                     /\ SetSql(insert_into_tag_table(db.sql, None, name, 0).sql)
                     /\ Return(ok("Added tag"))
       ELSE Return(warning(NO_DATABASE)) /\ UNCHANGED db
    /\ UNCHANGED <<file_name, fs, now>>

tag_table_rename(old_name, new_name) ==
    /\ IF db_loaded(FALSE, FALSE)
       THEN LET r == rename_tag_table_entry(db.sql, old_name, new_name)
            IN  IF r.val = 0
                THEN Return(error("cannot rename tag")) /\ UNCHANGED db
                ELSE SetSql(r.sql) /\ Return(ok("tag renamed"))
       ELSE Return(warning(NO_DATABASE)) /\ UNCHANGED db
    /\ UNCHANGED <<file_name, fs, now>>

tag_table_delete(name) ==
    /\ IF db_loaded(FALSE, FALSE)
       THEN LET sql1 == update_tag_table_counters(db.sql)
                tag_mapping == get_tag_table_name_mapping(sql1)
            IN  IF name \in DOMAIN tag_mapping
                THEN IF tag_mapping[name].count = 0
                     THEN LET r == delete_from_tag_table(sql1, name)
                          IN  IF r.exc = "none"
                              THEN SetSql(r.sql) /\ Return(ok("removed tags"))
                              ELSE SetSql(r.sql) /\ Return(exception("cannot delete tag from table"))
                     ELSE SetSql(sql1) /\ Return(error("tag is being used"))
                ELSE SetSql(sql1) /\ Return(error("tag does not exist"))
       ELSE Return(warning(NO_DATABASE)) /\ UNCHANGED db
    /\ UNCHANGED <<file_name, fs, now>>

\* A csv file of tags: its lines, each <<tag_id, tag_name>>.
RECURSIVE import_tag_lines(_, _, _)
import_tag_lines(r, lines, i) ==
    IF r.exc # "none" \/ i > Len(lines) THEN r
    ELSE import_tag_lines(insert_into_tag_table(r.sql, lines[i][1], lines[i][2], 0), lines, i + 1)

tag_table_import(lines) ==
    /\ IF db_loaded(FALSE, FALSE)
       THEN IF get_table_count(db.sql, "tag_table") = 0
            THEN LET r == import_tag_lines(Ok(db.sql, 0), lines, 1)
                 IN  IF r.exc = "none"
                     THEN SetSql(r.sql) /\ Return(ok("imported tags"))
                     ELSE SetSql(r.sql) /\ Return(exception("cannot import tags"))
            ELSE Return(error("database already has tags defined")) /\ UNCHANGED db
       ELSE Return(warning(NO_DATABASE)) /\ UNCHANGED db
    /\ UNCHANGED <<file_name, fs, now>>

\* ------------------------------------------------------------------------
\* Field table commands
\* ------------------------------------------------------------------------

field_table_list ==
    /\ IF db_loaded(FALSE, FALSE) THEN Return(ok("field table rows")) ELSE Return(warning(NO_DATABASE))
    /\ UNCHANGED <<file_name, db, fs, now>>

field_table_add(name, sensitive_flag) ==
    /\ IF db_loaded(FALSE, FALSE)
       THEN LET field_mapping == get_field_table_name_mapping(db.sql)
            IN  IF name \in DOMAIN field_mapping
                THEN Return(error("field already exists")) /\ UNCHANGED db
                ELSE /\ NextId(db.sql, "field_table") <= MaxId
                     /\ SetSql(insert_into_field_table(db.sql, None, name, sensitive_flag, 0).sql)
                     /\ Return(ok("Added field"))
       ELSE Return(warning(NO_DATABASE)) /\ UNCHANGED db
    /\ UNCHANGED <<file_name, fs, now>>

field_table_rename(old_name, new_name) ==
    /\ IF db_loaded(FALSE, FALSE)
       THEN LET r == rename_field_table_entry(db.sql, old_name, new_name)
            IN  IF r.val = 0
                THEN Return(error("cannot rename field")) /\ UNCHANGED db
                ELSE SetSql(r.sql) /\ Return(ok("field renamed"))
       ELSE Return(warning(NO_DATABASE)) /\ UNCHANGED db
    /\ UNCHANGED <<file_name, fs, now>>

field_table_delete(name) ==
    /\ IF db_loaded(FALSE, FALSE)
       THEN LET sql1 == update_field_table_counters(db.sql)
                field_mapping == get_field_table_name_mapping(sql1)
            IN  IF name \in DOMAIN field_mapping
                THEN IF field_mapping[name].count = 0
                     THEN LET r == delete_from_field_table(sql1, name)
                          IN  IF r.exc = "none"
                              THEN SetSql(r.sql) /\ Return(ok("removed fields"))
                              ELSE SetSql(r.sql) /\ Return(exception("cannot delete field from table"))
                     ELSE SetSql(sql1) /\ Return(error("field is being used"))
                ELSE SetSql(sql1) /\ Return(error("field does not exist"))
       ELSE Return(warning(NO_DATABASE)) /\ UNCHANGED db
    /\ UNCHANGED <<file_name, fs, now>>


\* A csv file of fields: its lines, each <<f_id, f_name, f_sensitive>>.
RECURSIVE import_field_lines(_, _, _)
import_field_lines(r, lines, i) ==
    IF r.exc # "none" \/ i > Len(lines) THEN r
    ELSE import_field_lines(insert_into_field_table(r.sql, lines[i][1], lines[i][2], lines[i][3], 0),
                            lines, i + 1)

field_table_import(lines) ==
    /\ IF db_loaded(FALSE, FALSE)
       THEN IF get_table_count(db.sql, "field_table") = 0
            THEN LET r == import_field_lines(Ok(db.sql, 0), lines, 1)
                 IN  IF r.exc = "none"
                     THEN SetSql(r.sql) /\ Return(ok("imported fields"))
                     ELSE SetSql(r.sql) /\ Return(exception("cannot import field table"))
            ELSE Return(error("database already has fields defined")) /\ UNCHANGED db
       ELSE Return(warning(NO_DATABASE)) /\ UNCHANGED db
    /\ UNCHANGED <<file_name, fs, now>>

\* ------------------------------------------------------------------------
\* Tags commands
\* ------------------------------------------------------------------------

\* tag_exists(item_id, tag_id) and insert_into_tags(None, item_id, tag_id):
\* Sql declares (tag_id, item_id) and (tag_id, tag_table_id, item_id).
tag_add(item_id, tag_name) ==
    /\ IF db_loaded(FALSE, FALSE)
       THEN LET tag_mapping == get_tag_table_name_mapping(db.sql)
            IN  IF tag_name \in DOMAIN tag_mapping
                THEN LET tag_id == tag_mapping[tag_name].id
                     IN  IF tag_exists(db.sql, item_id, tag_id)
                         THEN Return(error("tag already exists in item")) /\ UNCHANGED db
                         ELSE LET r == insert_into_tags(db.sql, None, item_id, tag_id)
                              IN  IF r.exc = "none"
                                  THEN /\ r.val <= MaxId
                                       /\ SetSql(r.sql) /\ Return(ok("added tag to item"))
                                  ELSE SetSql(r.sql) /\ Return(exception("cannot add tag to item"))
                ELSE Return(error("tag does not exist")) /\ UNCHANGED db
       ELSE Return(warning(NO_DATABASE)) /\ UNCHANGED db
    /\ UNCHANGED <<file_name, fs, now>>

\* tag_exists(item_id, tag_id) and delete_from_tags(item_id, tag_id):
\* Sql declares (tag_id, item_id) and (tag_table_id, item_id).
tag_delete(item_id, tag_name) ==
    /\ IF db_loaded(FALSE, FALSE)
       THEN LET tag_mapping == get_tag_table_name_mapping(db.sql)
            IN  IF tag_name \in DOMAIN tag_mapping
                THEN LET tag_id == tag_mapping[tag_name].id
                     IN  IF tag_exists(db.sql, item_id, tag_id)
                         THEN SetSql(delete_from_tags(db.sql, item_id, tag_id).sql)
                              /\ Return(ok("deleted tag from item"))
                         ELSE Return(error("tag does not exist in item")) /\ UNCHANGED db
                ELSE Return(error("tag does not exist")) /\ UNCHANGED db
       ELSE Return(warning(NO_DATABASE)) /\ UNCHANGED db
    /\ UNCHANGED <<file_name, fs, now>>

\* ------------------------------------------------------------------------
\* Field commands
\* ------------------------------------------------------------------------

\* insert_into_fields(None, item_id, field_table_id, f_value, f_value != field_value):
\* Sql declares (field_id, field_table_id, item_id, field_value, encrypted_value).
field_add(item_id, field_name, field_value) ==
    /\ IF db_loaded(FALSE, FALSE)
       THEN LET field_mapping == get_field_table_name_mapping(db.sql)
            IN  IF field_name \in DOMAIN field_mapping
                THEN LET field_table_id == field_mapping[field_name].id
                         f_sensitive == field_mapping[field_name].sensitive
                         f_value == IF f_sensitive THEN encrypt_value(field_value) ELSE field_value
                         r == insert_into_fields(db.sql, None, item_id, field_table_id,
                                                 f_value, f_value # field_value)
                     IN  IF r.exc = "none"
                         THEN /\ r.val <= MaxId
                              /\ SetSql(r.sql) /\ Return(ok("added field to item"))
                         ELSE SetSql(r.sql) /\ Return(exception("cannot add field to item"))
                ELSE Return(error("field does not exist")) /\ UNCHANGED db
       ELSE Return(warning(NO_DATABASE)) /\ UNCHANGED db
    /\ UNCHANGED <<file_name, fs, now>>

\* field_exists(item_id, field_id) and delete_from_fields(item_id, field_id):
\* Sql declares (field_id, item_id) and (field_table_id, item_id).
field_delete(item_id, field_id) ==
    /\ IF db_loaded(FALSE, FALSE)
       THEN IF field_exists(db.sql, item_id, field_id)
            THEN SetSql(delete_from_fields(db.sql, item_id, field_id).sql)
                 /\ Return(ok("deleted field from item"))
            ELSE Return(error("field does not exist")) /\ UNCHANGED db
       ELSE Return(warning(NO_DATABASE)) /\ UNCHANGED db
    /\ UNCHANGED <<file_name, fs, now>>

\* An argument that is None where a string is expected.
NoName == "<None>"

NoValue == Plain("<None>")

\* Lines 650-663: the value and the flag to store, or the failure of
\* decrypt_value.
updated_value(f_value, f_encrypted, new_sensitive, new_field_value) ==
    IF new_field_value # NoValue
    THEN LET new_value == IF new_sensitive THEN encrypt_value(new_field_value) ELSE new_field_value
         IN  [exc |-> "none", value |-> new_value, encrypted |-> new_value # new_field_value]
    ELSE IF f_encrypted /\ ~new_sensitive
         THEN IF decrypt_value_raises(f_value)
              THEN [exc |-> "InvalidToken", value |-> f_value, encrypted |-> FALSE]
              ELSE [exc |-> "none", value |-> decrypt_value(f_value), encrypted |-> FALSE]
    ELSE IF ~f_encrypted /\ new_sensitive
         THEN [exc |-> "none", value |-> encrypt_value(f_value),
               encrypted |-> encrypt_value(f_value) # f_value]
    ELSE IF f_encrypted /\ new_sensitive
         THEN [exc |-> "none", value |-> f_value, encrypted |-> TRUE]
    ELSE [exc |-> "none", value |-> f_value, encrypted |-> FALSE]

\* field_exists(item_id, field_id) and update_field(item_id, field_id, ...):
\* Sql declares (field_id, item_id) and (field_id, item_id, field_table_id, ...).
field_update(item_id, field_id, new_field_name, new_field_value) ==
    /\ IF db_loaded(FALSE, FALSE)
       THEN IF new_field_name = NoName /\ new_field_value = NoValue
            THEN Return(warning("nothing to update")) /\ UNCHANGED db
            ELSE IF field_exists(db.sql, item_id, field_id)
            THEN IF field_get(db.sql, field_id) = {}
                 THEN \* field_get(field_id)[0]: IndexError
                      Return(exception("cannot update item field")) /\ UNCHANGED db
                 ELSE LET field == CHOOSE l \in field_get(db.sql, field_id) : TRUE
                          id_mapping == get_field_table_id_mapping(db.sql)
                          name_mapping == get_field_table_name_mapping(db.sql)
                      IN  IF new_field_name # NoName /\ new_field_name \notin DOMAIN name_mapping
                          THEN Return(error("field name does not exist")) /\ UNCHANGED db
                          ELSE LET field_table_id == IF new_field_name # NoName
                                                     THEN name_mapping[new_field_name].id
                                                     ELSE field.field_id
                                   new_sensitive == IF new_field_name # NoName
                                                    THEN name_mapping[new_field_name].sensitive
                                                    ELSE id_mapping[field.field_id].sensitive
                                   u == updated_value(field.value, field.encrypted,
                                                      new_sensitive, new_field_value)
                                   r == update_field(db.sql, item_id, field_id, field_table_id,
                                                     u.value, u.encrypted)
                               IN  IF u.exc # "none" \/ r.exc # "none"
                                   THEN Return(exception("cannot update item field")) /\ UNCHANGED db
                                   ELSE IF r.val > 0
                                   THEN /\ Len(u.value.enc) <= MaxWraps
                                        /\ SetSql(r.sql) /\ Return(ok("updated fields"))
                                   ELSE Return(warning("no fields updated")) /\ UNCHANGED db
            ELSE Return(error("field does not exist")) /\ UNCHANGED db
       ELSE Return(warning(NO_DATABASE)) /\ UNCHANGED db
    /\ UNCHANGED <<file_name, fs, now>>


\* ------------------------------------------------------------------------
\* Item commands
\* ------------------------------------------------------------------------

\* item_list, item_count, item_search: queries.
item_list ==
    /\ IF db_loaded(FALSE, FALSE) THEN Return(ok("item rows")) ELSE Return(warning(NO_DATABASE))
    /\ UNCHANGED <<file_name, db, fs, now>>

\* Database.search: the items that match, one entry for every match, in the
\* order of the rows.  re.search with IGNORECASE finds the pattern anywhere in
\* the text; the patterns of the model are plain lower-case words.  An entry
\* is the id of the item (the code adds its name and date).  The text of a
\* ciphertext holds no pattern of the model.
search(sql, pattern, item_name_flag, tag_flag, field_name_flag, field_value_flag, note_flag) ==
    LET found(text) == \E i \in 1..(Len(text) - Len(pattern) + 1) :
                           SubSeq(text, i, i + Len(pattern) - 1) = pattern
        tag_mapping == get_tag_table_id_mapping(sql)
        field_mapping == get_field_table_id_mapping(sql)
        field_hit(l) == IF field_name_flag THEN found(field_mapping[l.field_id].name)
                        ELSE ~l.encrypted /\ l.value.enc = <<>> /\ found(l.value.text)
        matches(item) ==
            (IF item_name_flag /\ found(item.name) THEN 1 ELSE 0)
            + (IF note_flag /\ found(item.note) THEN 1 ELSE 0)
            + (IF tag_flag
               THEN Cardinality({l \in get_tag_list(sql, item.id) : found(tag_mapping[l.tag_id].name)})
               ELSE 0)
            + (IF field_name_flag \/ field_value_flag
               THEN Cardinality({l \in get_field_list(sql, item.id) : field_hit(l)})
               ELSE 0)
        rows == ById(sql.items)
        RECURSIVE output_list(_)
        output_list(i) == IF i > Len(rows) THEN <<>>
                          ELSE [k \in 1..matches(rows[i]) |-> rows[i].id] \o output_list(i + 1)
    IN  output_list(1)

\* CommandProcessor.item_search: the list of Database.search in a Response,
\* here as its text.
cp_item_search(pattern, name_flag, tag_flag, field_name_flag, field_value_flag, note_flag) ==
    /\ IF db_loaded(FALSE, FALSE)
       THEN Return(ok(ToString(search(db.sql, pattern, name_flag, tag_flag, field_name_flag,
                                      field_value_flag, note_flag))))
       ELSE Return(warning(NO_DATABASE))
    /\ UNCHANGED <<file_name, db, fs, now>>

\* The dictionary item_get returns: the tags are the names of the links that
\* get_tag_list(item_id) selects, the fields those of get_field_list(item_id).
item_dict(sql, item_id) ==
    LET item == CHOOSE r \in get_item_list(sql, item_id) : TRUE
    IN  [id |-> item_id, name |-> item.name, timestamp |-> item.date, note |-> item.note,
         tags |-> {get_tag_table_id_mapping(sql)[l.tag_id].name : l \in get_tag_list(sql, item_id)},
         fields |-> {[id |-> l.id, name |-> get_field_table_id_mapping(sql)[l.field_id].name,
                      value |-> l.value, encrypted |-> l.encrypted]
                     : l \in get_field_list(sql, item_id)}]

item_get(item_id) ==
    /\ IF db_loaded(FALSE, FALSE)
       THEN IF get_item_list(db.sql, item_id) # {}
            THEN Return(ok("item"))
            ELSE Return(error("item does not exist"))
       ELSE Return(warning(NO_DATABASE))
    /\ UNCHANGED <<file_name, db, fs, now>>

\* for tag_name in tag_list: insert_into_tags(None, item_id, tag_mapping[tag_name][MAP_TAG_ID])
\* Sql declares (tag_id, tag_table_id, item_id).
RECURSIVE add_item_tags(_, _, _, _, _)
add_item_tags(r, tag_mapping, item_id, tag_list, i) ==
    IF r.exc # "none" \/ i > Len(tag_list) THEN r
    ELSE IF tag_list[i] \notin DOMAIN tag_mapping THEN Raise(r.sql, "KeyError")
    ELSE add_item_tags(insert_into_tags(r.sql, None, item_id, tag_mapping[tag_list[i]].id),
                       tag_mapping, item_id, tag_list, i + 1)

item_add(item_name, tag_list, note) ==
    /\ IF db_loaded(FALSE, FALSE)
       THEN LET r0 == insert_into_items(db.sql, None, item_name, now, note)
                r == add_item_tags(r0, get_tag_table_name_mapping(r0.sql), r0.val, tag_list, 1)
            IN  /\ r.sql.seq.items <= MaxId /\ r.sql.seq.tags <= MaxId
                /\ SetSql(r.sql)
                /\ IF r.exc = "none" THEN Return(ok("item id")) ELSE Return(exception("cannot get item"))
       ELSE Return(warning(NO_DATABASE)) /\ UNCHANGED db
    /\ UNCHANGED <<file_name, fs, now>>

\* self.db.sql.delete_from_tags(item_id): Sql.delete_from_tags takes
\* (tag_table_id, item_id), both required, so the call raises TypeError before
\* any statement runs; delete_from_fields and delete_from_items are not reached.
item_delete(item_id) ==
    /\ IF db_loaded(FALSE, FALSE)
       THEN Return(exception("cannot delete item")) /\ UNCHANGED db
       ELSE Return(warning(NO_DATABASE)) /\ UNCHANGED db
    /\ UNCHANGED <<file_name, fs, now>>

RECURSIVE copy_tags(_, _, _, _)
copy_tags(r, tag_list, new_item_id, i) ==
    IF r.exc # "none" \/ i > Len(tag_list) THEN r
    ELSE copy_tags(insert_into_tags(r.sql, None, tag_list[i].tag_id, new_item_id),
                   tag_list, new_item_id, i + 1)

\* copy_fields leaving the field values of the item out.
copy_fields_dropped(r, field_list, new_item_id, i) == r

RECURSIVE copy_fields(_, _, _, _)
copy_fields(r, field_list, new_item_id, i) ==
    IF r.exc # "none" \/ i > Len(field_list) THEN r
    ELSE copy_fields(insert_into_fields(r.sql, None, field_list[i].field_id, new_item_id,
                                        field_list[i].value, field_list[i].encrypted),
                     field_list, new_item_id, i + 1)

item_copy(item_id) ==
    /\ IF db_loaded(FALSE, FALSE)
       THEN LET found == get_item_list(db.sql, item_id)
                tag_list == ById(get_tag_list(db.sql, item_id))
                field_list == ById(get_field_list(db.sql, item_id))
            IN  IF found # {}
                THEN LET item == CHOOSE r \in found : TRUE
                         r0 == insert_into_items(db.sql, None, "Copy of " \o item.name, now, item.note)
                         r1 == copy_tags(r0, tag_list, r0.val, 1)
                         r2 == copy_fields(r1, field_list, r0.val, 1)
                     IN  /\ r2.sql.seq.items <= MaxId /\ r2.sql.seq.tags <= MaxId
                         /\ r2.sql.seq.fields <= MaxId
                         /\ SetSql(r2.sql)
                         /\ IF r2.exc = "none" THEN Return(ok("added item"))
                            ELSE Return(exception("cannot copy item"))
                ELSE Return(error("item does not exist")) /\ UNCHANGED db
       ELSE Return(warning(NO_DATABASE)) /\ UNCHANGED db
    /\ UNCHANGED <<file_name, fs, now>>

\* update items set date=.. [, name=..] [, note=..] where id=..
update_item(sql, item_id, item_timestamp, item_name, item_note) ==
    LET hit == {r \in sql.items : r.id = item_id}
    IN  Ok([sql EXCEPT !.items =
                {IF r \in hit
                 THEN [r EXCEPT !.date = item_timestamp,
                                !.name = IF item_name # NoName THEN item_name ELSE @,
                                !.note = IF item_note # NoName THEN item_note ELSE @]
                 ELSE r : r \in @}],
           Cardinality(hit))

item_update(item_id, item_name, note) ==
    /\ IF db_loaded(FALSE, FALSE)
       THEN IF item_name # NoName \/ note # NoName
            THEN LET r == update_item(db.sql, item_id, now, item_name, note)
                 IN  IF r.val > 0
                     THEN SetSql(r.sql) /\ Return(ok("updated item"))
                     ELSE Return(warning("no items updated")) /\ UNCHANGED db
            ELSE Return(warning("nothing to update")) /\ UNCHANGED db
       ELSE Return(warning(NO_DATABASE)) /\ UNCHANGED db
    /\ UNCHANGED <<file_name, fs, now>>

\* ------------------------------------------------------------------------
\* Lexer (src/lexer.py)
\* ------------------------------------------------------------------------

\* A line is a sequence of characters, and so is a word.  A token is a record
\* [tid, value].

\* Lexer.__init__: the tables are sets of <<word, token id>>.
Lexer ==
    [command |-> <<>>, count |-> 0, char_list |-> <<>>, state |-> "START",
     keywords |-> {<<<<"d", "b">>, "DATABASE">>, <<<<"i", "t", "e", "m">>, "ITEM">>,
                   <<<<"t", "a", "g">>, "TAG">>, <<<<"f", "i", "e", "l", "d">>, "FIELD">>,
                   <<<<"r", "e", "a", "d">>, "READ">>,
                   <<<<"w", "r", "i", "t", "e">>, "WRITE">>,
                   <<<<"i", "m", "p", "o", "r", "t">>, "IMPORT">>,
                   <<<<"e", "x", "p", "o", "r", "t">>, "EXPORT">>,
                   <<<<"p", "r", "i", "n", "t">>, "PRINT">>,
                   <<<<"d", "u", "m", "p">>, "DUMP">>, <<<<"u", "s", "e">>, "USE">>,
                   <<<<"n", "o", "t", "e">>, "NOTE">>, <<<<"l", "i", "s", "t">>, "LIST">>,
                   <<<<"c", "o", "u", "n", "t">>, "COUNT">>,
                   <<<<"s", "e", "a", "r", "c", "h">>, "SEARCH">>,
                   <<<<"c", "r", "e", "a", "t", "e">>, "CREATE">>,
                   <<<<"c", "o", "p", "y">>, "COPY">>, <<<<"a", "d", "d">>, "ADD">>,
                   <<<<"u", "p", "d", "a", "t", "e">>, "UPDATE">>,
                   <<<<"r", "e", "n", "a", "m", "e">>, "RENAME">>,
                   <<<<"d", "e", "l", "e", "t", "e">>, "DELETE">>,
                   <<<<"r", "e", "p", "o", "r", "t">>, "REPORT">>,
                   <<<<"t", "r", "a", "c", "e">>, "TRACE">>},
     switches |-> {<<<<"-", "s">>, "SW_SENSITIVE">>, <<<<"-", "n">>, "SW_NAME">>,
                   <<<<"-", "t">>, "SW_TAG">>, <<<<"-", "f", "n">>, "SW_FIELD_NAME">>,
                   <<<<"-", "f", "v">>, "SW_FIELD_VALUE">>,
                   <<<<"-", "n", "o", "t", "e">>, "SW_NOTE">>},
     formats |-> {<<<<"j", "s", "o", "n">>, "FMT_JSON">>,
                  <<<<"s", "q", "l">>, "FMT_SQL">>},
     shortcuts |-> {<<<<"@">>, "SC_DB_READ">>, <<<<"/">>, "SC_ITEM_SEARCH">>,
                    <<<<":">>, "SC_ITEM_PRINT">>}]

\* Lexer.token: the token of a word.  The tables first, then the patterns in
\* the order of the code; a pattern tested with _match has to match the whole
\* word, one tested with re.search alone only its beginning.
token(word) ==
    LET n == Len(word)
        isdigit(c) == c \in {"0", "1", "2", "3", "4", "5", "6", "7", "8", "9"}
        isalpha(c) == c \in {"a", "b", "c", "d", "e", "f", "g", "h", "i", "j", "k", "l", "m",
                             "n", "o", "p", "q", "r", "s", "t", "u", "v", "w", "x", "y", "z"}
        isword(c) == isdigit(c) \/ isalpha(c) \/ c = "_"
        at(i) == IF i <= n THEN word[i] ELSE " "
        digits(i, j) == \A k \in i..j : isdigit(at(k))
        found(table) == {e \in table : e[1] = word}
        tid(table) == (CHOOSE e \in found(table) : TRUE)[2]
        MONTH_YEAR_PATTERN == digits(1, 2) /\ at(3) = "/" /\ digits(4, 5)
        SHORT_DATE_PATTERN == MONTH_YEAR_PATTERN /\ at(6) = "/" /\ digits(7, 8)
        LONG_DATE_PATTERN == SHORT_DATE_PATTERN /\ digits(9, 10) /\ n = 10
        INT_PATTERN == n > 0 /\ digits(1, n)
        first(S) == CHOOSE d \in S : \A e \in S : d <= e
        point == first({d \in 1..n : word[d] = "."} \cup {n + 1})
        FLOAT_PATTERN == point < n /\ digits(1, point - 1) /\ digits(point + 1, n)
        from == IF n >= 2 /\ word[1] = "." /\ word[2] = "/" THEN 3 ELSE 1
        dot == first({d \in from..n : word[d] = "."} \cup {n + 1})
        FILE_PATTERN ==
            /\ from < dot /\ dot < n
            /\ \A k \in from..(dot - 1) : isword(word[k]) \/ word[k] \in {"-", "/"}
            /\ \A k \in (dot + 1)..n : isword(word[k])
        digit(c) == CHOOSE v \in 0..9 : <<"0", "1", "2", "3", "4", "5", "6", "7", "8", "9">>[v + 1] = c
        int[i \in 0..n] == IF i = 0 \/ ~isdigit(at(i)) THEN 0 ELSE int[i - 1] * 10 + digit(word[i])
        significant == {k \in (point + 1)..n : word[k] # "0"} \cup {point}
        float == <<int[point - 1],
                   SubSeq(word, point + 1, CHOOSE k \in significant : \A e \in significant : e <= k)>>
    IN  IF found(Lexer.shortcuts) # {} THEN [tid |-> tid(Lexer.shortcuts), value |-> word]
        ELSE IF found(Lexer.keywords) # {} THEN [tid |-> tid(Lexer.keywords), value |-> word]
        ELSE IF found(Lexer.switches) # {} THEN [tid |-> tid(Lexer.switches), value |-> TRUE]
        ELSE IF found(Lexer.formats) # {} THEN [tid |-> tid(Lexer.formats), value |-> word]
        ELSE IF LONG_DATE_PATTERN \/ SHORT_DATE_PATTERN \/ MONTH_YEAR_PATTERN
        THEN [tid |-> "DATE", value |-> word]
        ELSE IF FLOAT_PATTERN THEN [tid |-> "FLOAT", value |-> float]
        ELSE IF INT_PATTERN THEN [tid |-> "INT", value |-> int[n]]
        ELSE IF FILE_PATTERN THEN [tid |-> "FILE", value |-> word]
        ELSE IF n > 0 THEN [tid |-> "NAME", value |-> word]
        ELSE [tid |-> "INVALID", value |-> word]

\* The loop of Lexer.next_token from the state lx with the characters of
\* `word` collected: the lexer it leaves and the token it returns.
RECURSIVE scan(_, _)
scan(lx, word) ==
    IF lx.count >= Len(lx.char_list)
    THEN LET UNTERMINATED_STRING == "unterminated"
         IN
         [lexer |-> lx,
          token |-> IF lx.state = "STRING"
                    THEN [tid |-> "INVALID",
                          value |-> <<UNTERMINATED_STRING,
                                      SubSeq(word, 1, IF Len(word) < 10 THEN Len(word) ELSE 10)>>]
                    ELSE [tid |-> "EOS", value |-> <<>>]]
    ELSE LET STRING_DELIMITERS == {"'", "\""}
             c == lx.char_list[lx.count + 1]
             l1 == [lx EXCEPT !.count = @ + 1]
         IN  CASE lx.state = "START" ->
                    IF c = " " THEN scan(l1, word)
                    ELSE IF <<c>> \in {e[1] : e \in Lexer.shortcuts} /\ l1.count = 1
                    THEN [lexer |-> l1, token |-> token(<<c>>)]
                    ELSE IF c \in STRING_DELIMITERS THEN scan([l1 EXCEPT !.state = "STRING"], <<>>)
                    ELSE scan([l1 EXCEPT !.state = "WORD"], <<c>>)
               [] lx.state = "WORD" ->
                    IF c = " " THEN [lexer |-> [l1 EXCEPT !.state = "START"], token |-> token(word)]
                    ELSE scan(l1, Append(word, c))
               [] lx.state = "STRING" ->
                    IF c \in STRING_DELIMITERS
                    THEN [lexer |-> [l1 EXCEPT !.state = "START"], token |-> [tid |-> "STRING", value |-> word]]
                    ELSE scan(l1, Append(word, c))


\* Lexer.input without the reset of the automaton's state.
input_keeps_state(command) ==
    LET used == {i \in 1..Len(command) : command[i] # " "}
        stripped == IF used = {} THEN <<>>
                    ELSE SubSeq(command, CHOOSE i \in used : \A j \in used : i <= j,
                                CHOOSE i \in used : \A j \in used : j <= i)
    IN  /\ lexer' = [command |-> stripped, char_list |-> Append(stripped, " "),
                     state |-> lexer.state, count |-> 0]
        /\ tokens' = <<>>
        /\ UNCHANGED <<file_name, db, fs, now>>

\* Lexer.input: the line is stripped of the white space around it and gets
\* one blank at its end; the automaton starts over.
input(command) ==
    LET used == {i \in 1..Len(command) : command[i] # " "}
        stripped == IF used = {} THEN <<>>
                    ELSE SubSeq(command, CHOOSE i \in used : \A j \in used : i <= j,
                                CHOOSE i \in used : \A j \in used : j <= i)
    IN  /\ lexer' = [command |-> stripped, char_list |-> Append(stripped, " "),
                     state |-> "START", count |-> 0]
        /\ tokens' = <<>>
        /\ UNCHANGED <<file_name, db, fs, now>>

\* Lexer.next_token.  The model keeps the first MaxCalls tokens returned
\* since the last input.
next_token ==
    LET r == scan(lexer, <<>>)
    IN  /\ lexer' = r.lexer
        /\ tokens' = IF Len(tokens) < MaxCalls THEN Append(tokens, r.token) ELSE tokens
        /\ UNCHANGED <<file_name, db, fs, now, last>>

\* Command lines as a user types them, the two lines of src/test/test_lexer.py
\* (test_next) first.
CommandLines ==
    {<<"i", "t", "e", "m", " ", "s", "e", "a", "r", "c", "h", " ", "n", "a",
       "m", "e", " ", "8", " ", "\"", "o", "n", "e", " ", "s", "t", "r", "i",
       "n", "g", "\"", " ", "j", "o", "e">>,
     <<"f", "i", "e", "l", "d", " ", "l", "i", "s", "t", " ", "\"", "s", "o",
       "m", "e", " ", "u", "n", "t", "e", "r", "m", "i", "n", "a", "t", "e",
       "d", " ", "s", "t", "r", "i", "n", "g", " ", "8">>,
     <<"i", "t", "e", "m", " ", "s", "e", "a", "r", "c", "h", " ", "a", " ",
       "\"", "a">>,
     <<"i", "t", "e", "m", " ", "s", "e", "a", "r", "c", "h", " ", "a", " ",
       "a", " ", "-", "n">>,
     <<"i", "t", "e", "m", " ", "a", "d", "d", " ", "-", "n", " ", "a", " ",
       "-", "t">>,
     <<"i", "t", "e", "m", " ", "f", "i", "e", "l", "d", " ", "a", "d", "d",
       " ", "-", "f", "n", " ", "a">>,
     <<"i", "t", "e", "m", " ", "l", "i", "s", "t", " ", "1", "0", "/", "1",
       "1", " ", "3", ".", "5", "0", " ", "a", ".", "d", "b">>,
     <<"d", "b", " ", "d", "u", "m", "p">>,
     <<"t", "r", "a", "c", "e">>,
     <<"s", "h", " ", "a">>,
     <<"@", "a", ".", "d", "b">>,
     <<"d", "b", " ", "r", "e", "a", "d", " ", "@">>,
     <<"'", "a", "\"", "a", "'", " ", "a">>}

\* Item commands of the help text (HELP_ITEM), with and without the item id,
\* with their options in either order, and with an option the command does
\* not take.
ItemLines ==
    {<<"i", "t", "e", "m", " ", "u", "s", "e", " ", "1">>,
     <<"i", "t", "e", "m", " ", "l", "i", "s", "t">>,
     <<"i", "t", "e", "m", " ", "c", "o", "u", "n", "t">>,
     <<"i", "t", "e", "m", " ", "p", "r", "i", "n", "t">>,
     <<"i", "t", "e", "m", " ", "p", "r", "i", "n", "t", " ", "1">>,
     <<"i", "t", "e", "m", " ", "p", "r", "i", "n", "t", " ", "-", "s">>,
     <<"i", "t", "e", "m", " ", "p", "r", "i", "n", "t", " ", "2", " ",
       "-", "s">>,
     <<"i", "t", "e", "m", " ", "d", "e", "l", "e", "t", "e">>,
     <<"i", "t", "e", "m", " ", "n", "o", "t", "e">>,
     <<"i", "t", "e", "m", " ", "a", "d", "d", " ", "-", "n", " ", "i",
       "a", " ", "-", "t", " ", "t", "a">>,
     <<"i", "t", "e", "m", " ", "a", "d", "d", " ", "-", "t", " ", "t",
       "a", " ", "-", "n", " ", "i", "a">>,
     <<"i", "t", "e", "m", " ", "a", "d", "d", " ", "-", "n", " ", "i",
       "a", " ", "-", "s">>,
     <<"i", "t", "e", "m", " ", "u", "p", "d", "a", "t", "e", " ", "-",
       "s">>,
     <<"i", "t", "e", "m", " ", "f", "i", "e", "l", "d", " ", "a", "d",
       "d", " ", "-", "f", "n", " ", "f", "a", " ", "-", "f", "v", " ",
       "v">>,
     <<"i", "t", "e", "m", " ", "f", "i", "e", "l", "d", " ", "a", "d",
       "d", " ", "-", "f", "v", " ", "v", " ", "-", "f", "n", " ", "f",
       "b">>,
     <<"i", "t", "e", "m", " ", "f", "i", "e", "l", "d", " ", "a", "d",
       "d", " ", "-", "f", "n", " ", "f", "a", " ", "-", "s">>,
     <<"i", "t", "e", "m", " ", "f", "i", "e", "l", "d", " ", "u", "p",
       "d", "a", "t", "e", " ", "1", " ", "a">>,
     <<"i", "t", "e", "m", " ", "s", "e", "a", "r", "c", "h", " ", "v",
       " ", "-", "f", "v">>,
     <<"i", "t", "e", "m", " ", "s", "e", "a", "r", "c", "h", " ", "v",
       " ", "-", "f", "n", " ", "-", "f", "v">>}

\* The lines handed to the lexer: every line of at most MaxLine characters
\* out of a blank, the two quotes, a shortcut, a letter and a digit, and the
\* command lines.
Lines ==
    LET Chars == {" ", "\"", "'", "@", "a", "8"}
    IN  UNION {[1..k -> Chars] : k \in 0..MaxLine} \cup CommandLines

\* ------------------------------------------------------------------------
\* Parser (src/parser.py): one step per token it asks the lexer for and per
\* call it makes to the command processor
\* ------------------------------------------------------------------------

\* Parser.get_token: the next token of the lexer.
get_token ==
    /\ lexer' = scan(lexer, <<>>).lexer
    /\ tokens' = IF Len(tokens) < MaxCalls THEN Append(tokens, scan(lexer, <<>>).token) ELSE tokens

\* The text of a token as the command processor gets it.  The lexer keeps a
\* word as its characters; the store keeps names, notes and values as
\* strings.
str(tok) ==
    IF tok.tid \notin {"NAME", "STRING", "FILE"} THEN "number"
    ELSE CASE tok.value = <<"i", "a">> -> "ia"
           [] tok.value = <<"t", "a">> -> "ta"
           [] tok.value = <<"t", "b">> -> "tb"
           [] tok.value = <<"f", "a">> -> "fa"
           [] tok.value = <<"f", "b">> -> "fb"
           [] tok.value = <<"a">> -> "a"
           [] tok.value = <<"n">> -> "n"
           [] tok.value = <<"v">> -> "v"
           [] OTHER -> "other"

\* Parser.execute: a line that begins with 'sh' goes to the shell, any other
\* to the lexer and to Parser.command.  `calls` and `shown` record what the
\* line has made the parser call and print so far; no operation has handed
\* anything back to the handlers of this line yet.
execute(line) ==
    LET used == {i \in 1..Len(line) : line[i] # " "}
        at(k) == IF Cardinality(used) >= k
                 THEN line[CHOOSE i \in used : Cardinality({j \in used : j < i}) = k - 1]
                 ELSE " "
    IN  /\ parser.pc = "idle"
        /\ IF at(1) = "s" /\ at(2) = "h"
           THEN UNCHANGED vars
           ELSE /\ input(line)
                /\ last' = NoResponse
                /\ parser' = [parser EXCEPT !.pc = "command", !.cmd = "", !.sw = "", !.arg = None,
                                            !.calls = <<>>, !.shown = <<>>]

\* Parser.command: the first token says which command it is.
command ==
    /\ parser.pc = "command"
    /\ get_token
    /\ UNCHANGED <<file_name, db, fs, now, last>>
    /\ LET tok == scan(lexer, <<>>).token
       IN  parser' = IF tok.tid \in {"DATABASE", "ITEM", "FIELD", "TAG"}
                     THEN [parser EXCEPT !.pc = "action_command", !.cmd = tok.tid]
                     ELSE IF tok.tid \in {"TRACE", "EOS"} THEN [parser EXCEPT !.pc = "idle"]
                     ELSE [parser EXCEPT !.pc = "idle",
                                         !.shown = Append(@, Response("parser", "unknown command"))]

\* Parser.action_command: the second token is the subcommand, and
\* Parser.item_command sends it to its handler.  The handlers of the
\* database, tag and field commands have no loop; the model leaves them out.
\* item count calls item_list here and item_count in its next step.
action_command ==
    /\ parser.pc = "action_command"
    /\ get_token
    /\ LET tok == scan(lexer, <<>>).token
       IN  IF parser.cmd = "ITEM" /\ tok.tid = "COUNT"
           THEN /\ item_list
                /\ parser' = [parser EXCEPT !.pc = "item_command", !.cmd = "COUNT",
                                            !.calls = Append(@, "item_list")]
           ELSE /\ UNCHANGED <<file_name, db, fs, now, last>>
                /\ parser' =
                     IF parser.cmd # "ITEM" THEN [parser EXCEPT !.pc = "idle"]
                     ELSE IF tok.tid \in {"USE", "LIST", "SEARCH", "PRINT", "NOTE", "DELETE", "COPY",
                                          "TAG", "FIELD"}
                     THEN [parser EXCEPT !.pc = "item_command", !.cmd = tok.tid]
                     ELSE IF tok.tid \in {"ADD", "UPDATE"}
                     THEN [parser EXCEPT !.pc = "item_options", !.cmd = tok.tid, !.sw = "",
                               !.opt = [name |-> NoName, tags |-> <<>>, note |-> NoName,
                                        field_name |-> NoName, field_value |-> NoValue]]
                     ELSE [parser EXCEPT !.pc = "idle",
                               !.shown = Append(@, Response("parser", "unknown subcommand"))]

\* Parser.item_command and the handlers it calls, one token or one call of
\* the command processor at a time: item_use, item_list, item_count,
\* item_print, item_note, item_delete, item_copy, item_tag_command,
\* item_field_command and its delete and update handlers.
item_command ==
    /\ parser.pc = "item_command"
    /\ LET tok == scan(lexer, <<>>).token
           end(message) == [parser EXCEPT !.pc = "idle",
                                          !.shown = Append(@, Response("parser", message))]
           called(operation) == [parser EXCEPT !.pc = "idle", !.calls = Append(@, operation),
                                               !.shown = Append(@, last')]
           quiet == UNCHANGED <<file_name, db, fs, now, last>>
       IN  CASE parser.cmd = "USE" ->
                  \* self.cp.db_loaded() is asked first, then the token
                  /\ quiet
                  /\ IF db = NoDatabase
                     THEN /\ UNCHANGED <<lexer, tokens>>
                          /\ parser' = [end(NO_DATABASE) EXCEPT !.calls = Append(@, "db_loaded")]
                     ELSE /\ get_token
                          /\ parser' = IF tok.tid = "INT"
                                       THEN [parser EXCEPT !.pc = "idle", !.default_item_id = tok.value,
                                                           !.calls = Append(@, "db_loaded")]
                                       ELSE [end("item id expected") EXCEPT
                                                           !.calls = Append(@, "db_loaded")]
             [] parser.cmd = "LIST" ->
                  /\ get_token
                  /\ item_list
                  /\ parser' = called("item_list")
             [] parser.cmd = "COUNT" ->
                  \* print(self.cp.item_count()) if item_list was ok, print(r) if not
                  /\ UNCHANGED <<lexer, tokens, file_name, db, fs, now>>
                  /\ IF last.severity = "OK"
                     THEN /\ last' = IF db # NoDatabase THEN ok(ToString(get_table_count(db.sql, "items")))
                                     ELSE warning(NO_DATABASE)
                          /\ parser' = called("item_count")
                     ELSE /\ last' = last
                          /\ parser' = [parser EXCEPT !.pc = "idle", !.shown = Append(@, last)]
             [] parser.cmd = "SEARCH" ->
                  /\ quiet
                  /\ get_token
                  /\ parser' = IF tok.tid \in {"NAME", "STRING"}
                               THEN [parser EXCEPT !.pc = "item_search", !.arg = str(tok),
                                         !.opt = [name |-> FALSE, tag |-> FALSE, field_name |-> FALSE,
                                                  field_value |-> FALSE, note |-> FALSE]]
                               ELSE end("pattern expected")
             [] parser.cmd \in {"PRINT", "NOTE", "DELETE", "COPY"} ->
                  \* the optional item id
                  /\ get_token
                  /\ LET given == tok.tid = "INT" \/ (tok.tid = "EOS" /\ parser.default_item_id # None)
                         item_id == IF tok.tid = "INT" THEN tok.value ELSE parser.default_item_id
                     IN  IF ~given THEN quiet /\ parser' = end("item id expected")
                         ELSE IF parser.cmd = "PRINT"
                         THEN quiet /\ parser' = [parser EXCEPT !.cmd = "item_print", !.arg = item_id]
                         ELSE IF parser.cmd = "NOTE"
                         THEN /\ item_get(item_id)
                              /\ parser' = [parser EXCEPT !.cmd = "item_note", !.arg = item_id,
                                                          !.calls = Append(@, "item_get")]
                         ELSE IF parser.cmd = "DELETE"
                         THEN /\ item_delete(item_id)
                              /\ parser' = [called("item_delete") EXCEPT !.arg = item_id,
                                               !.default_item_id =
                                                   IF last'.severity = "OK" /\ item_id = @ THEN None ELSE @]
                         ELSE /\ item_copy(item_id)
                              /\ parser' = [called("item_copy") EXCEPT !.arg = item_id]
             [] parser.cmd = "item_print" ->
                  \* the token after the id, item_get, and decrypt_value for
                  \* every encrypted field when the token was -s
                  /\ get_token
                  /\ item_get(parser.arg)
                  /\ parser' =
                       IF last'.severity # "OK" THEN called("item_get")
                       ELSE IF tok.tid = "SW_SENSITIVE"
                               /\ \E l \in get_field_list(db.sql, parser.arg) : l.encrypted
                       THEN IF \E l \in get_field_list(db.sql, parser.arg) :
                                   l.encrypted /\ decrypt_value_raises(l.value)
                            THEN [parser EXCEPT !.pc = "idle",
                                      !.calls = @ \o <<"item_get", "decrypt_value">>,
                                      !.shown = Append(@, Raised("InvalidToken"))]
                            ELSE [parser EXCEPT !.pc = "idle",
                                      !.calls = @ \o <<"item_get", "decrypt_value">>,
                                      !.shown = Append(@, Response("parser", "item"))]
                       ELSE [parser EXCEPT !.pc = "idle", !.calls = Append(@, "item_get"),
                                           !.shown = Append(@, Response("parser", "item"))]
             [] parser.cmd = "item_note" ->
                  \* edit_text gives the note back changed, unchanged or not at all
                  /\ UNCHANGED <<lexer, tokens>>
                  /\ IF last.severity # "OK"
                     THEN quiet /\ parser' = [parser EXCEPT !.pc = "idle", !.shown = Append(@, last)]
                     ELSE \E new_note \in {"edited", "same", "None"} :
                              IF new_note = "edited"
                              THEN /\ item_update(parser.arg, NoName, "edited")
                                   /\ parser' = called("item_update")
                              ELSE /\ quiet
                                   /\ parser' = end(IF new_note = "same"
                                                    THEN "note did not change; ignored"
                                                    ELSE "cannot edit note")
             [] parser.cmd = "TAG" ->
                  /\ quiet
                  /\ get_token
                  /\ parser' = IF tok.tid \notin {"ADD", "DELETE", "RENAME"}
                               THEN end("Invalid item tag subcommand")
                               ELSE IF parser.default_item_id = None THEN end("no item selected")
                               ELSE [parser EXCEPT !.cmd = "TAG " \o tok.tid]
             [] parser.cmd \in {"TAG ADD", "TAG DELETE", "TAG RENAME"} ->
                  /\ get_token
                  /\ IF tok.tid # "NAME" THEN quiet /\ parser' = end("tag name expected")
                     ELSE IF parser.cmd = "TAG ADD"
                     THEN tag_add(parser.default_item_id, str(tok)) /\ parser' = called("tag_add")
                     ELSE IF parser.cmd = "TAG DELETE"
                     THEN tag_delete(parser.default_item_id, str(tok)) /\ parser' = called("tag_delete")
                     ELSE quiet /\ parser' = end("Invalid tag subcommand")
             [] parser.cmd = "FIELD" ->
                  /\ quiet
                  /\ get_token
                  /\ parser' = IF tok.tid \notin {"ADD", "DELETE", "RENAME", "UPDATE"}
                               THEN end("Invalid item tag subcommand")
                               ELSE IF parser.default_item_id = None THEN end("no item selected")
                               ELSE IF tok.tid = "RENAME" THEN end("unknown item subcommand")
                               ELSE IF tok.tid = "ADD"
                               THEN [parser EXCEPT !.pc = "item_options", !.cmd = "FIELD ADD", !.sw = "",
                                         !.opt = [name |-> NoName, tags |-> <<>>, note |-> NoName,
                                                  field_name |-> NoName, field_value |-> NoValue]]
                               ELSE [parser EXCEPT !.cmd = "FIELD " \o tok.tid]
             [] parser.cmd = "FIELD DELETE" ->
                  /\ get_token
                  /\ IF tok.tid = "INT"
                     THEN field_delete(parser.default_item_id, tok.value) /\ parser' = called("field_delete")
                     ELSE quiet /\ parser' = end("bad field id")
             [] parser.cmd = "FIELD UPDATE" ->
                  /\ quiet
                  /\ get_token
                  /\ parser' = IF tok.tid = "INT"
                               THEN [parser EXCEPT !.pc = "item_options", !.arg = tok.value, !.sw = "",
                                         !.opt = [name |-> NoName, tags |-> <<>>, note |-> NoName,
                                                  field_name |-> NoName, field_value |-> NoValue]]
                               ELSE end("bad or missing field id")

\* Parser.item_search: one turn of its loop.  It sets a flag at a switch,
\* passes over any other token, and at EOS calls item_search of the command
\* processor, by item name if no flag was set.
item_search ==
    /\ parser.pc = "item_search"
    /\ get_token
    /\ LET tok == scan(lexer, <<>>).token
           flag == CASE tok.tid = "SW_NAME" -> "name" [] tok.tid = "SW_TAG" -> "tag"
                     [] tok.tid = "SW_FIELD_NAME" -> "field_name"
                     [] tok.tid = "SW_FIELD_VALUE" -> "field_value"
                     [] tok.tid = "SW_NOTE" -> "note" [] OTHER -> "none"
           any == \E f \in DOMAIN parser.opt : parser.opt[f]
       IN  IF tok.tid = "EOS"
           THEN /\ cp_item_search(parser.arg, parser.opt.name \/ ~any, parser.opt.tag,
                                  parser.opt.field_name, parser.opt.field_value, parser.opt.note)
                /\ parser' = [parser EXCEPT !.pc = "idle", !.calls = Append(@, "item_search"),
                                            !.shown = Append(@, last')]
           ELSE /\ UNCHANGED <<file_name, db, fs, now, last>>
                /\ parser' = IF flag = "none" THEN parser ELSE [parser EXCEPT !.opt[flag] = TRUE]

\* item_options giving up on any token without a word.
item_options_silent ==
    /\ parser.pc = "item_options"
    /\ get_token
    /\ UNCHANGED <<file_name, db, fs, now, last>>
    /\ parser' = [parser EXCEPT !.pc = "idle"]

\* Parser.item_options: one token of its loop, and at its end what the
\* handler that called it does with the options (item_add, item_update,
\* item_field_add_command, item_field_update_command).  A switch that takes
\* a value asks for the next token; EOS ends the loop; any other token is an
\* unknown option and ends the command.
item_options ==
    /\ parser.pc = "item_options"
    /\ get_token
    /\ LET tok == scan(lexer, <<>>).token
           d == parser.opt
           end(message) == [parser EXCEPT !.pc = "idle",
                                          !.shown = Append(@, Response("parser", message))]
           called(operation) == [parser EXCEPT !.pc = "idle", !.calls = Append(@, operation),
                                               !.shown = Append(@, last')]
           quiet == UNCHANGED <<file_name, db, fs, now, last>>
       IN  IF parser.sw # ""
           THEN \* the value of a switch: kept if it is of the right kind
                /\ quiet
                /\ parser' =
                     CASE parser.sw = "SW_NAME" /\ tok.tid \in {"NAME", "STRING"} ->
                            [parser EXCEPT !.sw = "", !.opt.name = str(tok)]
                       [] parser.sw = "SW_TAG" /\ tok.tid = "NAME" ->
                            [parser EXCEPT !.sw = "", !.opt.tags = Append(@, str(tok))]
                       [] parser.sw = "SW_FIELD_NAME" /\ tok.tid = "NAME" ->
                            [parser EXCEPT !.sw = "", !.opt.field_name = str(tok)]
                       [] parser.sw = "SW_FIELD_VALUE"
                            /\ tok.tid \in {"INT", "FLOAT", "NAME", "FILE", "STRING"} ->
                            [parser EXCEPT !.sw = "", !.opt.field_value = Plain(str(tok))]
                       [] parser.sw = "SW_NOTE"
                            /\ tok.tid \in {"INT", "FLOAT", "NAME", "FILE", "STRING"} ->
                            [parser EXCEPT !.sw = "", !.opt.note = str(tok)]
                       [] OTHER ->
                            [parser EXCEPT !.sw = "",
                                           !.shown = Append(@, Response("parser", "bad option value"))]
           ELSE IF tok.tid \in {"SW_NAME", "SW_TAG", "SW_FIELD_NAME", "SW_FIELD_VALUE", "SW_NOTE"}
           THEN quiet /\ parser' = [parser EXCEPT !.sw = tok.tid]
           ELSE IF tok.tid # "EOS"
           THEN /\ quiet
                /\ parser' = IF parser.cmd = "UPDATE" /\ parser.default_item_id = None
                             THEN [parser EXCEPT !.pc = "idle",
                                      !.shown = @ \o <<Response("parser", "unknown item option"),
                                                       Response("parser", "no item selected")>>]
                             ELSE end("unknown item option")
           ELSE CASE parser.cmd = "ADD" ->
                       IF d.name = NoName THEN quiet /\ parser' = end("no item name")
                       ELSE /\ item_add(d.name, d.tags, IF d.note = NoName THEN "" ELSE d.note)
                            /\ parser' =
                                 IF last'.severity = "OK"
                                 THEN [parser EXCEPT !.pc = "idle", !.calls = Append(@, "item_add"),
                                           !.default_item_id = db'.sql.seq.items,
                                           !.shown = Append(@, Response("parser", "Added item"))]
                                 ELSE [parser EXCEPT !.pc = "idle", !.calls = Append(@, "item_add"),
                                           !.shown = Append(@, Response("parser", "failed to add item"))]
                  [] parser.cmd = "UPDATE" ->
                       IF parser.default_item_id = None THEN quiet /\ parser' = end("no item selected")
                       ELSE IF d.name = NoName /\ d.note = NoName
                       THEN quiet /\ parser' = end("missing item name or note")
                       ELSE /\ item_update(parser.default_item_id, d.name, d.note)
                            /\ parser' = called("item_update")
                  [] parser.cmd = "FIELD ADD" ->
                       IF d.field_name = NoName \/ d.field_value = NoValue
                       THEN quiet /\ parser' = end("missing or bad field name or value")
                       ELSE /\ field_add(parser.default_item_id, d.field_name, d.field_value)
                            /\ parser' = called("field_add")
                  [] parser.cmd = "FIELD UPDATE" ->
                       IF d.field_name = NoName /\ d.field_value = NoValue
                       THEN quiet /\ parser' = end("must specify field name or value")
                       ELSE /\ field_update(parser.default_item_id, parser.arg, d.field_name,
                                            d.field_value)
                            /\ parser' = called("field_update")

\* ------------------------------------------------------------------------
\* The environment
\* ------------------------------------------------------------------------

\* A second passes.
Tick ==
    /\ now < MaxTime
    /\ now' = now + 1
    /\ UNCHANGED <<file_name, db, fs, last, lexer, tokens, parser>>

\* ------------------------------------------------------------------------
\* The session: CommandProcessor.__init__ and the commands a host may send
\* ------------------------------------------------------------------------

FileNames == {"pw.db", "old.db", TEMP_FILE}

\* What the crypt callback may answer.
CryptAnswers == Keys \cup {NoKey, CryptFails}

\* A file left on the disk by something else than this session: a document
\* whose tag section is readable and whose field section is absent.
BrokenDocument ==
    [tags |-> <<[uid |-> 1, name |-> "ta", count |-> 0]>>, fields |-> <<>>, items |-> <<>>,
     missing |-> "fields"]

InitialDisk == [p \in {Path("old.db")} |-> [key |-> NoKey, doc |-> BrokenDocument]]

Init ==
    /\ file_name = ""
    /\ db = NoDatabase
    /\ fs = InitialDisk
    /\ now = 0
    /\ last = NoResponse
    /\ lexer = [f \in {"command", "count", "char_list", "state"} |-> Lexer[f]]
    /\ tokens = <<>>
    /\ parser = [pc |-> "idle", cmd |-> "", sw |-> "", arg |-> None, default_item_id |-> None,
                  opt |-> [name |-> NoName, tags |-> <<>>, note |-> NoName,
                           field_name |-> NoName, field_value |-> NoValue],
                  calls |-> <<>>, shown |-> <<>>]

\* The tag lists of item add.
TagLists == {<<>>} \cup {<<t>> : t \in TagNames} \cup {<<t, u>> : t, u \in TagNames}

\* A tag file and a field file of each kind: empty, one line, two entries,
\* one name twice, one id twice.
TagCsvFiles ==
    {<<>>, << <<1, "ta">> >>, << <<1, "ta">>, <<2, "tb">> >>,
     << <<1, "ta">>, <<2, "ta">> >>, << <<1, "ta">>, <<1, "tb">> >>}

FieldCsvFiles ==
    {<<>>, << <<1, "fa", FALSE>> >>, << <<1, "fa", FALSE>>, <<2, "fb", TRUE>> >>,
     << <<1, "fa", FALSE>>, <<2, "fa", TRUE>> >>, << <<1, "fa", FALSE>>, <<1, "fb", FALSE>> >>}

Next ==
    \/ \E name \in FileNames, confirm \in BOOLEAN, key \in CryptAnswers :
           database_create(name, confirm, key)
    \/ \E name \in FileNames, confirm \in BOOLEAN, key \in CryptAnswers :
           database_read(name, confirm, key)
    \/ database_write
    \/ \E step \in 1..2 : write_interrupted(step)
    \/ \E name \in FileNames, output_format \in FileFormat : database_export(name, output_format)
    \/ database_import
    \/ database_dump
    \/ database_report
    \/ tag_table_list
    \/ \E name \in TagNames : tag_table_add(name)
    \/ \E old_name, new_name \in TagNames : tag_table_rename(old_name, new_name)
    \/ \E name \in TagNames : tag_table_delete(name)
    \/ \E lines \in TagCsvFiles : tag_table_import(lines)
    \/ field_table_list
    \/ \E name \in FieldNames, sensitive_flag \in BOOLEAN : field_table_add(name, sensitive_flag)
    \/ \E old_name, new_name \in FieldNames : field_table_rename(old_name, new_name)
    \/ \E name \in FieldNames : field_table_delete(name)
    \/ \E lines \in FieldCsvFiles : field_table_import(lines)
    \/ \E item_id \in Ids, tag_name \in TagNames : tag_add(item_id, tag_name)
    \/ \E item_id \in Ids, tag_name \in TagNames : tag_delete(item_id, tag_name)
    \/ \E item_id \in Ids, field_name \in FieldNames, text \in Texts :
           field_add(item_id, field_name, Plain(text))
    \/ \E item_id \in Ids, field_id \in Ids : field_delete(item_id, field_id)
    \/ \E item_id \in Ids, field_id \in Ids, field_name \in FieldNames \cup {NoName},
          field_value \in {Plain(t) : t \in Texts} \cup {NoValue} :
           field_update(item_id, field_id, field_name, field_value)
    \/ item_list
    \/ \E item_id \in Ids : item_get(item_id)
    \/ \E item_name \in ItemNames, tag_list \in TagLists, note \in Notes :
           item_add(item_name, tag_list, note)
    \/ \E item_id \in Ids : item_delete(item_id)
    \/ \E item_id \in Ids : item_copy(item_id)
    \/ \E item_id \in Ids, item_name \in ItemNames \cup {NoName}, note \in Notes \cup {NoName} :
           item_update(item_id, item_name, note)
    \/ Tick

Spec == Init /\ [][Next]_vars


\* ------------------------------------------------------------------------
\* Parts of the session.  The session with every command and every argument
\* is beyond exhaustive search, so the properties are checked on sessions
\* that keep the commands a property is about and the commands that build
\* the states it needs.
\* ------------------------------------------------------------------------

\* Loading and saving stores.
NextStore ==
    \/ \E name \in {"pw.db", "old.db"}, confirm \in BOOLEAN, key \in CryptAnswers :
           database_create(name, confirm, key)
    \/ \E name \in {"pw.db", "old.db"}, confirm \in BOOLEAN, key \in CryptAnswers \cup {"k2"} :
           database_read(name, confirm, key)
    \/ database_write
    \/ \E output_format \in FileFormat : database_export("old.db", output_format)
    \/ database_import
    \/ database_dump
    \/ database_report
    \/ tag_table_list
    \/ tag_table_add("ta")

SpecStore == Init /\ [][NextStore]_vars

\* Saving, being interrupted while saving, and starting again on what the
\* interrupted save left on the disk.
NextWrite ==
    \/ \E key \in Keys \cup {NoKey} : database_create("pw.db", TRUE, key)
    \/ \E name \in {"pw.db", TEMP_FILE}, key \in Keys \cup {NoKey} : database_read(name, TRUE, key)
    \/ tag_table_add("ta")
    \/ database_write
    \/ \E step \in 1..2 : write_interrupted(step)
    \/ Tick

SpecWrite == Init /\ [][NextWrite]_vars

\* The tag vocabulary, the items and the links between them.
NextTags ==
    \/ database_create("pw.db", TRUE, NoKey)
    \/ \E name \in TagNames : tag_table_add(name)
    \/ \E old_name, new_name \in TagNames : tag_table_rename(old_name, new_name)
    \/ \E name \in TagNames : tag_table_delete(name)
    \/ \E lines \in TagCsvFiles : tag_table_import(lines)
    \/ \E tag_list \in TagLists : item_add("ia", tag_list, "n")
    \/ \E item_id \in Ids, tag_name \in TagNames : tag_add(item_id, tag_name)
    \/ \E item_id \in Ids, tag_name \in TagNames : tag_delete(item_id, tag_name)
    \/ \E item_id \in Ids : item_get(item_id)
    \/ \E item_id \in Ids : item_delete(item_id)
    \/ \E item_id \in Ids : item_copy(item_id)
    \/ \E item_id \in Ids, item_name \in ItemNames \cup {NoName}, note \in Notes \cup {NoName} :
           item_update(item_id, item_name, note)
    \/ Tick

SpecTags == Init /\ [][NextTags]_vars

\* The field vocabulary and the field values, in stores with and without a
\* key.
NextFields ==
    \/ \E key \in Keys \cup {NoKey} : database_create("pw.db", TRUE, key)
    \/ \E name \in FieldNames, sensitive_flag \in BOOLEAN : field_table_add(name, sensitive_flag)
    \/ \E old_name, new_name \in FieldNames : field_table_rename(old_name, new_name)
    \/ \E name \in FieldNames : field_table_delete(name)
    \/ \E lines \in FieldCsvFiles : field_table_import(lines)
    \/ item_add("ia", <<>>, "n")
    \/ \E item_id \in Ids, field_name \in FieldNames : field_add(item_id, field_name, Plain("v"))
    \/ \E item_id \in Ids, field_id \in Ids, field_name \in FieldNames \cup {NoName},
          field_value \in {Plain("v"), NoValue} :
           field_update(item_id, field_id, field_name, field_value)
    \/ \E item_id \in Ids, field_id \in Ids : field_delete(item_id, field_id)
    \/ \E item_id \in Ids : item_copy(item_id)

SpecFields == Init /\ [][NextFields]_vars

\* A store handed on through an exported document: written by a session
\* with one key, read by a session with the same key, another or none.
NextExchange ==
    \/ \E key \in Keys \cup {NoKey} : database_create("pw.db", TRUE, key)
    \/ \E key \in Keys \cup {NoKey} : database_read("old.db", TRUE, key)
    \/ database_export("old.db", "FORMAT_JSON")
    \/ \E f \in {<<"fa", FALSE>>, <<"fb", TRUE>>} : field_table_add(f[1], f[2])
    \/ item_add("ia", <<>>, "n")
    \/ \E field_name \in FieldNames : field_add(1, field_name, Plain("v"))
    \/ \E field_name \in FieldNames \cup {NoName}, field_value \in {Plain("v"), NoValue} :
           field_update(1, 1, field_name, field_value)
    \/ item_copy(1)

SpecExchange == Init /\ [][NextExchange]_vars

\* Items that carry a tag and a field value, and copies of them, at
\* different times.
NextCopy ==
    \/ \E key \in Keys \cup {NoKey} : database_create("pw.db", TRUE, key)
    \/ tag_table_add("ta")
    \/ \E sensitive_flag \in BOOLEAN : field_table_add("fb", sensitive_flag)
    \/ \E tag_list \in {<<>>, <<"ta">>} : item_add("ia", tag_list, "n")
    \/ \E item_id \in Ids : field_add(item_id, "fb", Plain("v"))
    \/ \E item_id \in Ids : item_update(item_id, NoName, "n")
    \/ \E item_id \in Ids : item_copy(item_id)
    \/ Tick

SpecCopy == Init /\ [][NextCopy]_vars

\* The lexer on its own, as src/test/test_lexer.py drives it.
NextLexer ==
    \/ \E line \in Lines : input(line) /\ UNCHANGED <<last, parser>>
    \/ next_token /\ UNCHANGED parser

SpecLexer == Init /\ [][NextLexer]_vars

\* The parser at work on command lines.  A step of the parser that can be
\* taken is taken: the interpreter runs the command it was given.
NextParser ==
    \/ \E line \in Lines : execute(line)
    \/ command
    \/ action_command
    \/ item_command
    \/ item_search
    \/ item_options

SpecParser ==
    /\ Init /\ [][NextParser]_vars
    /\ WF_vars(command \/ action_command \/ item_command \/ item_search \/ item_options)

\* A session at the prompt: a store is created and a tag, a field and a
\* sensitive field are declared, each once, between two command lines, and
\* the parser runs the commands typed.
NextSession ==
    \/ parser.pc = "idle" /\ db = NoDatabase /\ \E key \in Keys : database_create("pw.db", TRUE, key)
    \/ parser.pc = "idle" /\ db # NoDatabase /\ db.sql.tag_table = {} /\ tag_table_add("ta")
    \/ parser.pc = "idle" /\ db # NoDatabase /\ db.sql.field_table = {} /\ field_table_add("fa", FALSE)
    \/ parser.pc = "idle" /\ db # NoDatabase /\ Cardinality(db.sql.field_table) = 1
                           /\ field_table_add("fb", TRUE)
    \/ \E line \in ItemLines : execute(line)
    \/ command
    \/ action_command
    \/ item_command
    \/ item_search
    \/ item_options

SpecSession == Init /\ [][NextSession]_vars

\* Links and field values come and go, and database_write recomputes the
\* counts.
NextCounters ==
    \/ db = NoDatabase /\ database_create("pw.db", TRUE, NoKey)
    \/ tag_table_add("ta")
    \/ field_table_add("fa", FALSE)
    \/ \E tag_list \in {<<>>, <<"ta">>} : item_add("ia", tag_list, "n")
    \/ \E item_id \in Ids : tag_delete(item_id, "ta")
    \/ \E item_id \in Ids : field_add(item_id, "fa", Plain("v"))
    \/ \E item_id \in Ids, field_id \in Ids : field_delete(item_id, field_id)
    \/ database_write

SpecCounters == Init /\ [][NextCounters]_vars

\* Links and field values against the deletion of what they refer to.
NextLinks ==
    \/ db = NoDatabase /\ database_create("pw.db", TRUE, NoKey)
    \/ tag_table_add("ta")
    \/ field_table_add("fa", FALSE)
    \/ \E tag_list \in {<<>>, <<"ta">>} : item_add("ia", tag_list, "n")
    \/ \E item_id \in Ids : tag_add(item_id, "ta")
    \/ \E item_id \in Ids : tag_delete(item_id, "ta")
    \/ \E item_id \in Ids : field_add(item_id, "fa", Plain("v"))
    \/ \E item_id \in Ids, field_id \in Ids : field_delete(item_id, field_id)
    \/ \E item_id \in Ids : item_delete(item_id)
    \/ \E item_id \in Ids : item_copy(item_id)
    \/ tag_table_delete("ta")
    \/ field_table_delete("fa")

SpecLinks == Init /\ [][NextLinks]_vars

\* ------------------------------------------------------------------------
\* Properties
\* ------------------------------------------------------------------------

\* Why database_read(name, key) cannot succeed: the crypt callback fails, the
\* file is missing, it does not decrypt under the key, or what it holds is
\* not a complete exchange document.
ReadCannotSucceed(name, key) ==
    \/ key = CryptFails
    \/ ~exists(fs, Path(name))
    \/ key # NoKey /\ fs[Path(name)].key # key
    \/ key = NoKey /\ fs[Path(name)].key # NoKey
    \/ fs[Path(name)].doc.missing # "none"

\* C1: a database_read that is not refused for lack of confirmation and that
\* fails - for one of the causes above, or for any other reason that keeps it
\* from returning OK - returns an EXCEPTION Response and leaves no store
\* loaded, whether or not a store was loaded before the call.
C1_FailedReadLeavesNoStore ==
    [][\A name \in FileNames, confirm \in BOOLEAN, key \in CryptAnswers :
          (database_read(name, confirm, key) /\ ~db_loaded(TRUE, confirm))
              => /\ (ReadCannotSucceed(name, key) \/ last'.severity # "OK")
                        => (last'.severity = "EXCEPTION" /\ db' = NoDatabase)
                 /\ last'.severity = "OK" => (db' # NoDatabase /\ db'.file_name = name)]_vars

\* C1 witness: a read has failed on a disk that holds a file this session
\* wrote, so a store was loaded in this session before the read.
C1_Witness ==
    /\ last = exception("failed to read database")
    /\ db = NoDatabase
    /\ exists(fs, Path("pw.db"))

\* C2: while a store is loaded, a database_create or database_read whose
\* confirmation callback answers false returns a WARNING and leaves the
\* store, its contents, its file name and the disk as they were; so a step of
\* either command that changes the loaded store is one in which the callback
\* answered true.
C2_UnconfirmedKeepsStore ==
    [][\A name \in FileNames, key \in CryptAnswers :
          (db # NoDatabase /\ (database_create(name, FALSE, key) \/ database_read(name, FALSE, key)))
              => /\ last'.severity = "WARNING"
                 /\ UNCHANGED <<db, file_name, fs>>]_vars

\* C2 witness: a loaded store with contents, and a create or read that was
\* just refused.
C2_Witness ==
    /\ db # NoDatabase
    /\ db.sql.tag_table # {}
    /\ last \in {warning("database not created"), warning("database not read")}

\* C3: with no store loaded, every step that is not a database_create or a
\* database_read returns the WARNING 'no database' and changes neither the
\* memory nor the disk.
C3_NoDatabaseWarning ==
    [][(db = NoDatabase
        /\ ~(\E name \in FileNames, confirm \in BOOLEAN, key \in CryptAnswers :
                database_create(name, confirm, key) \/ database_read(name, confirm, key)))
          => (last' = warning(NO_DATABASE) /\ UNCHANGED <<db, file_name, fs>>)]_vars

\* C5: when write is interrupted after the temporary file was created and
\* before the rename that promotes it, the document that was on the disk
\* under the store's file name is still on the disk, complete and unmodified:
\* under its timestamped backup name or, when the interruption came before
\* the backup rename, still under its own name.  (The claim names the backup
\* name alone, which is more than this.)
C5_InterruptedWriteKeepsPrevious ==
    [][\A step \in 1..2 :
          (write_interrupted(step) /\ exists(fs, Path(db.file_name)))
              => \E p \in {Path(db.file_name), BackupPath(db.file_name, now)} :
                     exists(fs', p) /\ fs'[p] = fs[Path(db.file_name)]]_vars

\* What a user can see of a store: the two vocabularies and, for every item,
\* what item_get shows of it (the time stamp left aside).
StoreView(sql) ==
    [tag_table |-> {<<r.id, r.name>> : r \in sql.tag_table},
     field_table |-> {<<r.id, r.name, r.sensitive>> : r \in sql.field_table},
     items |-> {[item_dict(sql, r.id) EXCEPT !.timestamp = 0] : r \in sql.items}]

\* database_write of the loaded store followed by database_read of the same
\* file under the same key: the outcome of the read.
WrittenThenRead ==
    LET w == write_data(db)
        fs3 == write_promote(write_backup(write_temp(fs, w.data), db.file_name, now), db.file_name)
    IN  read(Database(db.file_name, db.crypt_key), fs3)

\* C4: for every loaded store, writing it and reading the file back under
\* the same key succeeds and gives a store with the same vocabularies and the
\* same items: same ids, names, notes, tag sets and field values.
C4_WriteReadRoundTrip ==
    db # NoDatabase =>
        /\ WrittenThenRead.exc = "none"
        /\ StoreView(WrittenThenRead.db.sql) = StoreView(db.sql)

TagUsed(name) ==
    \E r \in db.sql.tag_table : r.name = name /\ \E l \in db.sql.tags : l.tag_id = r.id

FieldUsed(name) ==
    \E r \in db.sql.field_table : r.name = name /\ \E l \in db.sql.fields : l.field_id = r.id

\* The vocabularies without their counters, and the links and values.
VocabularyAndLinks(sql) ==
    [tag_table |-> {<<r.id, r.name>> : r \in sql.tag_table},
     field_table |-> {<<r.id, r.name, r.sensitive>> : r \in sql.field_table},
     tags |-> sql.tags, fields |-> sql.fields]

\* C6: tag_table_delete and field_table_delete of a name that an entry in
\* use carries return the ERROR 'is being used' and leave the entries, the
\* item-tag links and the field values as they were.
C6_UsedEntryIsNotDeleted ==
    [][/\ \A name \in TagNames :
            (db # NoDatabase /\ TagUsed(name) /\ tag_table_delete(name))
                => /\ last' = error("tag is being used")
                   /\ VocabularyAndLinks(db'.sql) = VocabularyAndLinks(db.sql)
       /\ \A name \in FieldNames :
            (db # NoDatabase /\ FieldUsed(name) /\ field_table_delete(name))
                => /\ last' = error("field is being used")
                   /\ VocabularyAndLinks(db'.sql) = VocabularyAndLinks(db.sql)]_vars

\* C7: no two entries of the tag vocabulary carry the same name, and no two
\* entries of the field vocabulary do.
C7_VocabularyNamesUnique ==
    db # NoDatabase =>
        /\ \A r, q \in db.sql.tag_table : r.name = q.name => r = q
        /\ \A r, q \in db.sql.field_table : r.name = q.name => r = q

\* C8 as claimed: field_add that stores a value stores, for a sensitive
\* definition, a value different from the input with encrypted=true and, for
\* a non-sensitive one, the input with encrypted=false - key or no key.
C8_SensitiveAlwaysEncrypted ==
    [][\A item_id \in Ids, field_name \in FieldNames, text \in Texts :
          (last' = ok("added field to item") /\ db # NoDatabase
           /\ field_add(item_id, field_name, Plain(text)))
              => LET new == CHOOSE l \in db'.sql.fields : l \notin db.sql.fields
                     sensitive == get_field_table_name_mapping(db.sql)[field_name].sensitive
                 IN  /\ Cardinality(db'.sql.fields \ db.sql.fields) = 1
                     /\ sensitive => (new.encrypted /\ new.value # Plain(text))
                     /\ ~sensitive => (~new.encrypted /\ new.value = Plain(text))]_vars

\* C8, amended: with a key configured, field_add for a sensitive definition
\* stores ciphertext of the input under that key with encrypted=true; with no
\* key configured it stores the input unchanged with encrypted=false; for a
\* non-sensitive definition it stores the input unchanged with encrypted=false
\* in both configurations.
C8_SensitiveEncryptedUnderKey ==
    [][\A item_id \in Ids, field_name \in FieldNames, text \in Texts :
          (last' = ok("added field to item") /\ db # NoDatabase
           /\ field_add(item_id, field_name, Plain(text)))
              => LET new == CHOOSE l \in db'.sql.fields : l \notin db.sql.fields
                     sensitive == get_field_table_name_mapping(db.sql)[field_name].sensitive
                 IN  /\ Cardinality(db'.sql.fields \ db.sql.fields) = 1
                     /\ (sensitive /\ db.crypt_key # NoKey)
                            => /\ new.encrypted
                               /\ new.value # Plain(text)
                               /\ can_decrypt(db.crypt_key, new.value)
                               /\ decrypt_str2str(db.crypt_key, new.value) = Plain(text)
                     /\ (sensitive /\ db.crypt_key = NoKey)
                            => (~new.encrypted /\ new.value = Plain(text))
                     /\ ~sensitive => (~new.encrypted /\ new.value = Plain(text))]_vars

\* C8 witness: field_add has just stored ciphertext in a store with a key.
C8_Witness ==
    /\ db # NoDatabase
    /\ db.crypt_key # NoKey
    /\ last = ok("added field to item")
    /\ \E l \in db.sql.fields : l.id = db.sql.seq.fields /\ l.encrypted /\ l.value.enc = <<db.crypt_key>>

\* C9: in a loaded store a field value is flagged encrypted exactly when it
\* is ciphertext under the configured key.
C9_FlagMatchesCiphertext ==
    db # NoDatabase =>
        \A l \in db.sql.fields :
            l.encrypted <=> (db.crypt_key # NoKey /\ can_decrypt(db.crypt_key, l.value))

\* C10: item_delete of an existing item returns OK, and after it the item is
\* gone, no link and no field value refers to it, and the other items with
\* their links and values and both vocabularies are as before.
C10_ItemDeleteCascades ==
    [][\A item_id \in Ids :
          (db # NoDatabase /\ get_item_list(db.sql, item_id) # {} /\ item_delete(item_id))
              => /\ last'.severity = "OK"
                 /\ db'.sql.items = {r \in db.sql.items : r.id # item_id}
                 /\ db'.sql.tags = {l \in db.sql.tags : l.item_id # item_id}
                 /\ db'.sql.fields = {l \in db.sql.fields : l.item_id # item_id}
                 /\ db'.sql.tag_table = db.sql.tag_table
                 /\ db'.sql.field_table = db.sql.field_table]_vars

\* The tags of an item, and its field values: definition, stored value and
\* flag.
TagsOf(sql, item_id) == {l.tag_id : l \in get_tag_list(sql, item_id)}

FieldsOf(sql, item_id) ==
    {<<l.field_id, l.value, l.encrypted>> : l \in get_field_list(sql, item_id)}

\* C11: item_copy of an existing item X returns OK and adds exactly one item
\* Y with an id no item had, the name 'Copy of ' + X's name, X's note, X's
\* tag set, X's field values (definition, stored value and flag, as many as
\* X has) and a time stamp not earlier than X's; the rows of X and of every
\* other item stay as they were.
C11_CopyDuplicatesItem ==
    [][\A item_id \in Ids :
          (db # NoDatabase /\ get_item_list(db.sql, item_id) # {} /\ item_copy(item_id))
              => LET x == CHOOSE r \in db.sql.items : r.id = item_id
                     added == db'.sql.items \ db.sql.items
                     y == CHOOSE r \in added : TRUE
                 IN  /\ last' = ok("added item")
                     /\ Cardinality(added) = 1
                     /\ db'.sql.items = db.sql.items \cup added
                     /\ \A r \in db.sql.items : r.id # y.id
                     /\ y.name = "Copy of " \o x.name
                     /\ y.note = x.note
                     /\ y.date >= x.date
                     /\ TagsOf(db'.sql, y.id) = TagsOf(db.sql, x.id)
                     /\ FieldsOf(db'.sql, y.id) = FieldsOf(db.sql, x.id)
                     /\ Cardinality(get_tag_list(db'.sql, y.id)) = Cardinality(get_tag_list(db.sql, x.id))
                     /\ Cardinality(get_field_list(db'.sql, y.id)) = Cardinality(get_field_list(db.sql, x.id))
                     /\ {l \in db'.sql.tags : l.item_id # y.id} = db.sql.tags
                     /\ {l \in db'.sql.fields : l.item_id # y.id} = db.sql.fields]_vars

\* C11 witness: a copy made later than its original, carrying a tag and an
\* encrypted field value.
C11_Witness ==
    /\ db # NoDatabase
    /\ last = ok("added item")
    /\ \E x, y \in db.sql.items :
          /\ y.name = "Copy of " \o x.name
          /\ y.date > x.date
          /\ TagsOf(db.sql, y.id) # {}
          /\ \E l \in get_field_list(db.sql, y.id) : l.encrypted

\* C12: database_create of a file name that exists on the disk returns an
\* ERROR Response and leaves the loaded store and the current file name as
\* they were, whether a store is loaded or not and whatever the confirmation
\* callback answers.
C12_CreateExistingIsError ==
    [][\A name \in FileNames, confirm \in BOOLEAN, key \in CryptAnswers :
          (exists(fs, Path(name)) /\ database_create(name, confirm, key))
              => (last'.severity = "ERROR" /\ UNCHANGED <<db, file_name>>)]_vars

\* C13: an operation that returns hands back a Response with one of the four
\* severities OK, WARNING, ERROR and EXCEPTION, on every path; none returns
\* nothing.
C13_EveryOperationReturnsResponse ==
    (last # NoResponse /\ last.severity # "Raised")
        => last.severity \in {"OK", "WARNING", "ERROR", "EXCEPTION"}

\* C14: no operation ends with an exception that reaches its caller: a
\* failure of the store, of the encryption or of the crypt callback comes
\* back as an EXCEPTION Response.
C14_NoRawException ==
    last.severity # "Raised"

\* C15: Parser.execute returns for every line: whatever the parser is doing,
\* it is back at the host loop later on.
C15_ExecuteTerminates ==
    []<>(parser.pc = "idle")

\* C16: after input(line) the tokens returned are, in order, one token for
\* each word between blanks and one STRING token for each quoted string -
\* from an opening quote to the next occurrence of the same quote -, the last
\* word included, and then EOS.  A shortcut as the first character of the line
\* counts as a word of its own, and a quote that is never closed as the
\* INVALID token of C18.
C16_OneTokenPerWord ==
    LET line == lexer.command
        n == Len(line)
        least(S) == CHOOSE d \in S : \A e \in S : d <= e
        seg[i \in 1..(n + 1)] ==
            IF i > n THEN <<>>
            ELSE IF line[i] = " " THEN seg[i + 1]
            ELSE IF line[i] \in {"'", "\""}
            THEN LET close == {j \in (i + 1)..n : line[j] = line[i]}
                 IN  IF close = {}
                     THEN <<[tid |-> "INVALID",
                             value |-> <<"unterminated",
                                         SubSeq(Append(line, " "), i + 1, least({i + 10, n + 1}))>>]>>
                     ELSE <<[tid |-> "STRING", value |-> SubSeq(line, i + 1, least(close) - 1)]>>
                          \o seg[least(close) + 1]
            ELSE LET stop == least({j \in i..n : line[j] = " "} \cup {n + 1})
                 IN  <<token(SubSeq(line, i, stop - 1))>> \o seg[stop]
        words == IF n > 0 /\ \E e \in Lexer.shortcuts : e[1] = <<line[1]>>
                 THEN <<token(<<line[1]>>)>> \o seg[2]
                 ELSE seg[1]
    IN  \A i \in 1..Len(tokens) :
            tokens[i] = IF i <= Len(words) THEN words[i] ELSE [tid |-> "EOS", value |-> <<>>]

\* C17: once next_token has returned EOS it returns EOS at every later call
\* before the next input; and the tokens returned after input(line) are the
\* ones a lexer that has seen no other line returns for that line.
C17_EosSticksAndLinesAreIndependent ==
    LET start == [command |-> lexer.command, char_list |-> Append(lexer.command, " "),
                  state |-> "START", count |-> 0]
        fresh[k \in 0..MaxCalls] == IF k = 0 THEN start ELSE scan(fresh[k - 1], <<>>).lexer
    IN  /\ \A i, j \in 1..Len(tokens) : (i < j /\ tokens[i].tid = "EOS") => tokens[j].tid = "EOS"
        /\ \A k \in 1..Len(tokens) : tokens[k] = scan(fresh[k - 1], <<>>).token

\* C17 witness: a line with a word in it has given its tokens, EOS, and EOS
\* again at the next call.
C17_Witness ==
    /\ Len(tokens) >= 3
    /\ tokens[1].tid = "NAME"
    /\ tokens[Len(tokens) - 1].tid = "EOS"
    /\ tokens[Len(tokens)].tid = "EOS"

\* C18: when the next thing on the line is a quote that no later character of
\* the line closes, next_token returns an INVALID token - not EOS - whose
\* value is 'unterminated' with a preview of the text after the quote, ten
\* characters of it at most.
C18_UnclosedQuoteIsInvalid ==
    [][LET n == Len(lexer.command)
           ahead == {p \in (lexer.count + 1)..n : lexer.char_list[p] # " "}
           p == CHOOSE d \in ahead : \A e \in ahead : d <= e
           returned == tokens'[Len(tokens')]
       IN  (/\ next_token /\ UNCHANGED parser
            /\ Len(tokens) < MaxCalls
            /\ lexer.state = "START" /\ ahead # {}
            /\ lexer.char_list[p] \in {"'", "\""}
            /\ \A j \in (p + 1)..n : lexer.char_list[j] # lexer.char_list[p])
               => /\ returned.tid = "INVALID"
                  /\ returned.value[1] = "unterminated"
                  /\ Len(returned.value[2]) <= 10
                  /\ returned.value[2] = SubSeq(lexer.char_list, p + 1,
                                                IF p + 10 < n + 1 THEN p + 10 ELSE n + 1)]_vars

\* C19: a shortcut token is returned for the first character of the line
\* only: it is the first token and its value is that character.
C19_ShortcutOnlyFirst ==
    \A i \in 1..Len(tokens) :
        tokens[i].tid \in {e[2] : e \in Lexer.shortcuts}
            => (i = 1 /\ tokens[i].value = <<lexer.command[1]>>)

\* C20: when the next thing on the line is an opening quote and the same
\* quote occurs again later on the line, next_token returns one STRING token
\* whose value is the text between the two, whatever it holds, and the lexer
\* stands after the closing quote.
C20_QuotedIsOneString ==
    [][LET n == Len(lexer.command)
           ahead == {p \in (lexer.count + 1)..n : lexer.char_list[p] # " "}
           p == CHOOSE d \in ahead : \A e \in ahead : d <= e
           close == {j \in (p + 1)..n : lexer.char_list[j] = lexer.char_list[p]}
           q == CHOOSE d \in close : \A e \in close : d <= e
           returned == tokens'[Len(tokens')]
       IN  (/\ next_token /\ UNCHANGED parser
            /\ Len(tokens) < MaxCalls
            /\ lexer.state = "START" /\ ahead # {}
            /\ lexer.char_list[p] \in {"'", "\""}
            /\ close # {})
               => /\ returned = [tid |-> "STRING", value |-> SubSeq(lexer.char_list, p + 1, q - 1)]
                  /\ lexer'.count = q]_vars

\* C24: recomputing the usage counters a second time, with nothing in
\* between, gives the counts of the first time, and recomputing changes
\* nothing but the count columns.
C24_RecountIsIdempotent ==
    db # NoDatabase =>
        LET once == update_counters(db.sql)
            twice == update_counters(once)
            uncounted(sql) == [sql EXCEPT !.tag_table = {[r EXCEPT !.count = 0] : r \in @},
                                          !.field_table = {[r EXCEPT !.count = 0] : r \in @}]
        IN  /\ twice = once
            /\ uncounted(once) = uncounted(db.sql)

\* tag_table_delete has recomputed the counts of a store whose tag is in use.
C24_Witness ==
    /\ db # NoDatabase
    /\ last = error("tag is being used")
    /\ \E r \in db.sql.tag_table : r.count > 0
    /\ update_counters(db.sql) = db.sql

\* C25: a database_read that is not refused for lack of confirmation returns
\* OK only if the file was written under the key the session is configured
\* with (no key for a file written without one); with another key, with no
\* key for an encrypted file, and with a key for a file written without one
\* it returns an EXCEPTION Response and no store is loaded.
C25_ReadNeedsTheKeyOfTheWrite ==
    [][\A name \in FileNames, confirm \in BOOLEAN, key \in Keys \cup {NoKey, "k2"} :
          (database_read(name, confirm, key) /\ ~db_loaded(TRUE, confirm) /\ exists(fs, Path(name)))
              => IF fs[Path(name)].key = key
                 THEN last'.severity \in {"OK", "EXCEPTION"}
                 ELSE last'.severity = "EXCEPTION" /\ db' = NoDatabase]_vars

\* A read has failed while the disk holds a complete document that this
\* session wrote under its key.
C25_Witness ==
    /\ last = exception("failed to read database")
    /\ db = NoDatabase
    /\ exists(fs, Path("pw.db"))
    /\ fs[Path("pw.db")].key = "k1"
    /\ fs[Path("pw.db")].doc.missing = "none"

\* C26: a step that changes a file is a database_write or a database_export;
\* database_create and the tag, field and item commands leave the disk as it
\* is, so the document on the disk stays as last written.
C26_OnlyWriteAndExportChangeFiles ==
    [][\/ fs' = fs
       \/ database_write
       \/ \E name \in FileNames, output_format \in FileFormat : database_export(name, output_format)]_vars

\* The store holds a tag that the document on the disk does not have.
C26_Witness ==
    /\ db # NoDatabase
    /\ db.sql.tag_table # {}
    /\ last.severity = "OK"
    /\ exists(fs, Path(db.file_name))
    /\ fs[Path(db.file_name)].doc.missing = "none"
    /\ fs[Path(db.file_name)].doc.tags = <<>>

\* C27: after a database_write that returns OK and whose target file existed,
\* the target holds the new document, the previous content of the target is
\* in the timestamped backup file of this write, which did not exist before,
\* and every other file that existed (the temporary file left aside) is still
\* there with its content, the backups of earlier writes included.
C27_WriteKeepsEveryFile ==
    [][(/\ database_write
        /\ db # NoDatabase
        /\ exists(fs, Path(db.file_name))
        /\ last'.severity = "OK")
          => LET target == Path(db.file_name)
                 backup == BackupPath(db.file_name, now)
             IN  /\ fs'[target] = write_data(db).data
                 /\ ~exists(fs, backup)
                 /\ exists(fs', backup) /\ fs'[backup] = fs[target]
                 /\ \A p \in DOMAIN fs \ {target, Path(TEMP_FILE)} :
                        exists(fs', p) /\ fs'[p] = fs[p]]_vars

\* C28: a field_update that gives no new value, moves an encrypted value to
\* a definition that is not sensitive and returns OK leaves the stored
\* ciphertext and the mark encrypted=true when the store has no key, and
\* stores the decrypted text with encrypted=false when it has one.
C28_DecryptOnlyWithKey ==
    [][\A field_name \in FieldNames :
          (/\ field_update(1, 1, field_name, NoValue)
           /\ db # NoDatabase
           /\ \E l \in db.sql.fields : l.id = 1 /\ l.encrypted
           /\ \E d \in db.sql.field_table : d.name = field_name /\ ~d.sensitive
           /\ last'.severity = "OK")
             => \A l \in db.sql.fields : \A m \in db'.sql.fields :
                    (l.id = 1 /\ m.id = 1)
                        => IF db.crypt_key = NoKey
                           THEN m.value = l.value /\ m.encrypted
                           ELSE m.value = decrypt_str2str(db.crypt_key, l.value) /\ ~m.encrypted]_vars

\* C30: tag_table_delete and field_table_delete decide on the links that
\* exist when they are called, whatever the stored count says: a name that
\* no entry carries gives the ERROR 'does not exist', a name whose entries no
\* item uses is deleted with OK, and a name that an entry in use carries is
\* refused with the ERROR 'is being used'.
C30_DeleteDecidesOnLinks ==
    [][/\ \A name \in TagNames :
            (db # NoDatabase /\ tag_table_delete(name))
                => last' = IF \A r \in db.sql.tag_table : r.name # name
                           THEN error("tag does not exist")
                           ELSE IF TagUsed(name) THEN error("tag is being used")
                           ELSE ok("removed tags")
       /\ \A name \in FieldNames :
            (db # NoDatabase /\ field_table_delete(name))
                => last' = IF \A r \in db.sql.field_table : r.name # name
                           THEN error("field does not exist")
                           ELSE IF FieldUsed(name) THEN error("field is being used")
                           ELSE ok("removed fields")]_vars


\* C21: print, note, delete and copy take the item id that is given; with the
\* id left out (the line ends after the verb, or -s follows it) and a default
\* item set they run on the default item; with neither, the parser says
\* 'item id expected' and calls no operation of the command processor.
C21_OptionalItemId ==
    [][(parser.pc = "item_command" /\ parser.cmd \in {"PRINT", "NOTE", "DELETE", "COPY"}) =>
         LET tok == scan(lexer, <<>>).token
             refused == Append(parser.shown, Response("parser", "item id expected"))
         IN  CASE tok.tid = "INT" ->
                    parser'.arg = tok.value /\ parser'.shown # refused
               [] tok.tid \in {"EOS", "SW_SENSITIVE"} /\ parser.default_item_id # None ->
                    parser'.arg = parser.default_item_id /\ parser'.shown # refused
               [] tok.tid \in {"EOS", "SW_SENSITIVE"} /\ parser.default_item_id = None ->
                    parser'.shown = refused /\ parser'.calls = parser.calls /\ parser'.pc = "idle"
               [] OTHER -> TRUE]_vars

C23_SearchMatchesAnyEnabledScope ==
    db # NoDatabase =>
      \A pattern \in {"v", "a", "ia", "ta", "fa", "fb"} :
      \A item_name_flag, tag_flag, field_name_flag, field_value_flag, note_flag \in BOOLEAN :
        LET sql == db.sql
            found(text) == \E i \in 1..(Len(text) - Len(pattern) + 1) :
                               SubSeq(text, i, i + Len(pattern) - 1) = pattern
            in_name(item) == found(item.name)
            in_note(item) == found(item.note)
            in_tags(item) == \E l \in sql.tags :
                                 /\ l.item_id = item.id
                                 /\ \E t \in sql.tag_table : t.id = l.tag_id /\ found(t.name)
            in_field_names(item) == \E l \in sql.fields :
                                 /\ l.item_id = item.id
                                 /\ \E f \in sql.field_table : f.id = l.field_id /\ found(f.name)
            in_field_values(item) == \E l \in sql.fields :
                                 /\ l.item_id = item.id
                                 /\ ~l.encrypted /\ l.value.enc = <<>> /\ found(l.value.text)
            matching == {item.id : item \in {r \in sql.items :
                             \/ item_name_flag /\ in_name(r)
                             \/ tag_flag /\ in_tags(r)
                             \/ field_name_flag /\ in_field_names(r)
                             \/ field_value_flag /\ in_field_values(r)
                             \/ note_flag /\ in_note(r)}}
            output_list == search(sql, pattern, item_name_flag, tag_flag, field_name_flag,
                                  field_value_flag, note_flag)
        IN  {output_list[i] : i \in DOMAIN output_list} = matching

\* C29: a command line the parser has carried out called one operation of
\* the command processor, no helper of it, and showed the Response of that
\* operation as it came.
C29_OneOperationPerLine ==
    (parser.pc = "idle" /\ parser.calls # <<>>) =>
        /\ Len(parser.calls) = 1
        /\ parser.calls[1] \notin {"db_loaded", "decrypt_value"}
        /\ parser.shown = <<last>>

\* C31: update_counters gives every tag the number of links that name it and
\* every field of the table the number of field values that name it;
\* database_write stores these counts, and a step that adds or removes a link
\* or a field value and deletes nothing from the tables leaves the stored
\* counts as they were.
C31_CountsAreRecomputedOnDemand ==
    [][(db # NoDatabase /\ db' # NoDatabase) =>
         LET links(sql, r) == Cardinality({l \in sql.tags : l.tag_id = r.id})
             values(sql, r) == Cardinality({l \in sql.fields : l.field_id = r.id})
             counted(sql, of) == /\ \A r \in of.tag_table : r.count = links(sql, r)
                                 /\ \A r \in of.field_table : r.count = values(sql, r)
             stored(sql) == {<<"tag", r.id, r.count>> : r \in sql.tag_table}
                            \cup {<<"field", r.id, r.count>> : r \in sql.field_table}
             ids(sql) == {<<"tag", r.id>> : r \in sql.tag_table}
                         \cup {<<"field", r.id>> : r \in sql.field_table}
         IN  /\ counted(db'.sql, update_counters(db'.sql))
             /\ (last'.value \in {"database written", "cannot write database"} /\ fs' # fs)
                    => counted(db'.sql, db'.sql)
             /\ ((db'.sql.tags # db.sql.tags \/ db'.sql.fields # db.sql.fields)
                     /\ ids(db'.sql) = ids(db.sql))
                    => stored(db'.sql) = stored(db.sql)]_vars

\* A store written with a tag and a field in use, and the link removed
\* since: the count of the tag is still the one of the write.
C31_Witness ==
    /\ db # NoDatabase
    /\ exists(fs, Path("pw.db"))
    /\ \E r \in db.sql.tag_table :
           r.count = 1 /\ Cardinality({l \in db.sql.tags : l.tag_id = r.id}) = 0
    /\ \E r \in db.sql.field_table :
           r.count = 1 /\ Cardinality({l \in db.sql.fields : l.field_id = r.id}) = 1

\* C32: when the read that database_read starts fails, the Database it was
\* reading into holds no row in any of its five tables.
C32_FailedReadLeavesNoRows ==
    [][\A name \in {"pw.db", "old.db"}, confirm \in BOOLEAN, key \in Keys \cup {NoKey} :
         (database_read(name, confirm, key) /\ last' = exception("failed to read database")) =>
            LET r == read(Database(name, key), fs)
            IN  \A table \in {"tag_table", "field_table", "items", "tags", "fields"} :
                    r.db.sql[table] = {}]_vars

\* C33: for an item of the store, tag_add that returns OK has added the one
\* link of that item to that tag, and item_get of the item lists the tag;
\* with the link there already it returns the ERROR 'already exists in item'
\* and with a name that is not in the table the ERROR 'does not exist', the
\* store unchanged; tag_delete that returns OK has removed that link and no
\* other.
C33_TagAddRecordsTheLink ==
    [][\A item_id \in Ids, tag_name \in TagNames :
         (db # NoDatabase /\ get_item_list(db.sql, item_id) # {}) =>
            LET tag_mapping == get_tag_table_name_mapping(db.sql)
                link(sql) == {l \in sql.tags : l.item_id = item_id
                                               /\ l.tag_id = tag_mapping[tag_name].id}
            IN  /\ tag_add(item_id, tag_name) =>
                      IF tag_name \notin DOMAIN tag_mapping
                      THEN last' = error("tag does not exist") /\ db' = db
                      ELSE IF link(db.sql) # {}
                      THEN last' = error("tag already exists in item") /\ db' = db
                      ELSE last'.severity = "OK" =>
                              /\ Cardinality(link(db'.sql)) = 1
                              /\ db'.sql.tags \ db.sql.tags = link(db'.sql)
                              /\ db.sql.tags \subseteq db'.sql.tags
                              /\ tag_name \in item_dict(db'.sql, item_id).tags
                /\ (tag_delete(item_id, tag_name) /\ last'.severity = "OK") =>
                      /\ link(db.sql) # {}
                      /\ db'.sql.tags = db.sql.tags \ link(db.sql)]_vars

\* C34: in each of the five tables, an insert whose references exist and
\* that gives no id stores the row under an id no row of the table has, one
\* more than the largest id the table has ever held, and returns it; an
\* insert with an id that a row has, or with a reference to a row that does
\* not exist, fails with an integrity error and changes nothing; an insert
\* with an unused id stores the row under that id.
C34_InsertAssignsFreshIds ==
    db # NoDatabase =>
      \A table \in {"tag_table", "field_table", "items", "tags", "fields"} :
      \A id \in {None} \cup 1..(MaxId + 1), ref_id \in Ids, item_id \in Ids :
        LET sql == db.sql
            r == CASE table = "tag_table" -> insert_into_tag_table(sql, id, "ta", 0)
                   [] table = "field_table" -> insert_into_field_table(sql, id, "fa", FALSE, 0)
                   [] table = "items" -> insert_into_items(sql, id, "ia", 0, "n")
                   [] table = "tags" -> insert_into_tags(sql, id, ref_id, item_id)
                   [] table = "fields" ->
                        insert_into_fields(sql, id, ref_id, item_id, Plain("v"), FALSE)
            refs == CASE table = "tags" ->
                           ref_id \in RowIds(sql.tag_table) /\ item_id \in RowIds(sql.items)
                      [] table = "fields" ->
                           ref_id \in RowIds(sql.field_table) /\ item_id \in RowIds(sql.items)
                      [] OTHER -> TRUE
            stored == /\ r.exc = "none"
                      /\ \E row \in r.sql[table] : row.id = r.val /\ r.sql[table] = sql[table] \cup {row}
            largest == IF sql[table] = {} THEN 0
                       ELSE CHOOSE i \in RowIds(sql[table]) : \A j \in RowIds(sql[table]) : j <= i
        IN  IF ~refs \/ id \in RowIds(sql[table])
            THEN r.exc = "IntegrityError" /\ r.sql = sql
            ELSE IF id # None
            THEN stored /\ r.val = id
            ELSE stored /\ r.val \notin RowIds(sql[table]) /\ r.val = sql.seq[table] + 1 /\ r.val > largest

\* C34 as stated: the id assigned is one more than the largest id in use.
C34_NextIdFollowsLargestInUse ==
    db # NoDatabase =>
      \A table \in {"tag_table", "field_table", "items", "tags", "fields"} :
      \A id \in {None} \cup 1..(MaxId + 1), ref_id \in Ids, item_id \in Ids :
        LET sql == db.sql
            r == CASE table = "tag_table" -> insert_into_tag_table(sql, id, "ta", 0)
                   [] table = "field_table" -> insert_into_field_table(sql, id, "fa", FALSE, 0)
                   [] table = "items" -> insert_into_items(sql, id, "ia", 0, "n")
                   [] table = "tags" -> insert_into_tags(sql, id, ref_id, item_id)
                   [] table = "fields" ->
                        insert_into_fields(sql, id, ref_id, item_id, Plain("v"), FALSE)
            refs == CASE table = "tags" ->
                           ref_id \in RowIds(sql.tag_table) /\ item_id \in RowIds(sql.items)
                      [] table = "fields" ->
                           ref_id \in RowIds(sql.field_table) /\ item_id \in RowIds(sql.items)
                      [] OTHER -> TRUE
            stored == /\ r.exc = "none"
                      /\ \E row \in r.sql[table] : row.id = r.val /\ r.sql[table] = sql[table] \cup {row}
            largest == IF sql[table] = {} THEN 0
                       ELSE CHOOSE i \in RowIds(sql[table]) : \A j \in RowIds(sql[table]) : j <= i
        IN  IF ~refs \/ id \in RowIds(sql[table])
            THEN r.exc = "IntegrityError" /\ r.sql = sql
            ELSE IF id # None
            THEN stored /\ r.val = id
            ELSE stored /\ r.val \notin RowIds(sql[table]) /\ r.val = largest + 1

\* The one link of the store was removed: the next link gets the id 2, and no
\* id is in use.
C34_Witness ==
    /\ db # NoDatabase
    /\ db.sql.tags = {}
    /\ db.sql.seq.tags = 1
    /\ db.sql.items # {}
    /\ db.sql.tag_table # {}
    /\ last = ok("deleted tag from item")

\* C35: whenever the parser's default item id is set, a store is loaded and
\* that store has an item with that id.
C35_DefaultItemExists ==
    parser.default_item_id # None =>
        /\ db # NoDatabase
        /\ parser.default_item_id \in RowIds(db.sql.items)

\* C36: item_add is all-or-nothing: when its response is not OK the store
\* has gained no item and no link between an item and a tag.
C36_ItemAddIsAllOrNothing ==
    [][\A tag_list \in TagLists :
          item_add("ia", tag_list, "n") /\ last'.severity # "OK" /\ db # NoDatabase =>
              /\ db'.sql.items = db.sql.items
              /\ db'.sql.tags = db.sql.tags]_vars

\* C37: in every reachable state every link of an item to a tag names an
\* existing item and an existing tag, and every field value names an existing
\* item and an existing field definition.
C37_NoDanglingReference ==
    db # NoDatabase =>
        /\ \A l \in db.sql.tags :
               l.tag_id \in RowIds(db.sql.tag_table) /\ l.item_id \in RowIds(db.sql.items)
        /\ \A f \in db.sql.fields :
               f.field_id \in RowIds(db.sql.field_table) /\ f.item_id \in RowIds(db.sql.items)

\* A delete was refused on an item that has a link and a field value.
C37_Witness ==
    /\ db # NoDatabase
    /\ db.sql.tags # {}
    /\ db.sql.fields # {}
    /\ last = exception("cannot delete item")

\* C38: in every reachable state no item has two links to the same tag.
C38_NoDuplicateLink ==
    db # NoDatabase =>
        \A l, m \in db.sql.tags :
            l.tag_id = m.tag_id /\ l.item_id = m.item_id => l.id = m.id

\* C39: the list Database.search returns holds an item at most once, however
\* many enabled scopes, tags or fields of the item match the pattern.
C39_SearchListsAnItemOnce ==
    db # NoDatabase =>
      \A pattern \in {"v", "a", "ia", "ta", "fa", "fb"} :
      \A item_name_flag, tag_flag, field_name_flag, field_value_flag, note_flag \in BOOLEAN :
        LET output_list == search(db.sql, pattern, item_name_flag, tag_flag, field_name_flag,
                                  field_value_flag, note_flag)
        IN  \A i, j \in DOMAIN output_list : output_list[i] = output_list[j] => i = j

\* C40: wherever Database.write is cut short between two of its file
\* operations, the document that was on the disk under the store's file name
\* is still on the disk, unmodified, under that name or under a backup name
\* of it, and the store's file name holds nothing but that document.
C40_PreviousDocumentSurvivesWrite ==
    [][\A step \in 1..2 :
          (write_interrupted(step) /\ exists(fs, Path(db.file_name)))
              => LET target == Path(db.file_name)
                 IN  /\ \E p \in DOMAIN fs' : p.name = db.file_name /\ fs'[p] = fs[target]
                     /\ exists(fs', target) => fs'[target] = fs[target]]_vars

=========================================================================
